---- MODULE Spec2Model ----
(***************************************************************************)
(* Model of infra/scripts/cleanup/nuke.py: the teardown run of main() and  *)
(* the AWSCleaner methods it calls.  One action per provider call site;    *)
(* a provider call either returns or raises, and a raised exception goes   *)
(* to the handler of the innermost enclosing try of the source (or leaves  *)
(* main when there is none).                                               *)
(***************************************************************************)
EXTENDS Integers, Sequences, FiniteSets, TLC

\* ------------------------------------------------------------- bounds
\* Number of provider/tool calls that may raise in one run.
MaxFaults == 1

\* Number of requests sent to orders-service.
MaxRequests == 3

\* ------------------------------------------------------------ strings
\* Python's None; the code only ever tests these values for truthiness
\* (`if not x`), where None and '' agree.
None == ""

\* Python `pid in name` on str: pid is a (contiguous) substring of name.
Contains(name, pid) ==
    \E i \in 0..(Len(name) - Len(pid)) : SubSeq(name, i + 1, i + Len(pid)) = pid

UpperLetters == "ABCDEFGHIJKLMNOPQRSTUVWXYZ"
LowerLetters == "abcdefghijklmnopqrstuvwxyz"

\* The lower-case letter of each upper-case letter.
UpperToLower ==
    [c \in {SubSeq(UpperLetters, i, i) : i \in 1..26} |->
        LET i == CHOOSE j \in 1..26 : SubSeq(UpperLetters, j, j) = c
        IN  SubSeq(LowerLetters, i, i)]

LowerChar(c) == IF c \in DOMAIN UpperToLower THEN UpperToLower[c] ELSE c

\* str.lower()
RECURSIVE Lower(_)
Lower(s) ==
    IF Len(s) = 0 THEN ""
    ELSE LowerChar(SubSeq(s, 1, 1)) \o Lower(SubSeq(s, 2, Len(s)))

Digits == "0123456789"

IsDigitChar(c) == \E i \in 1..10 : SubSeq(Digits, i, i) = c

\* str.isdigit(): non-empty and every character a digit.
IsDigit(s) == Len(s) > 0 /\ \A i \in 1..Len(s) : IsDigitChar(SubSeq(s, i, i))

DigitVal(c) == (CHOOSE i \in 1..10 : SubSeq(Digits, i, i) = c) - 1

\* int(s) for a string of digits.
RECURSIVE ToInt(_)
ToInt(s) ==
    IF Len(s) = 0 THEN 0
    ELSE 10 * ToInt(SubSeq(s, 1, Len(s) - 1)) + DigitVal(SubSeq(s, Len(s), Len(s)))

\* str.strip() (blanks only).
RECURSIVE Strip(_)
Strip(s) ==
    IF Len(s) = 0 THEN ""
    ELSE IF SubSeq(s, 1, 1) = " " THEN Strip(SubSeq(s, 2, Len(s)))
    ELSE IF SubSeq(s, Len(s), Len(s)) = " " THEN Strip(SubSeq(s, 1, Len(s) - 1))
    ELSE s

\* str.split(','): the set of the pieces (the caller only builds a set of them).
RECURSIVE SplitComma(_)
SplitComma(s) ==
    IF \E i \in 1..Len(s) : SubSeq(s, i, i) = ","
    THEN LET i == CHOOSE j \in 1..Len(s) :
                     /\ SubSeq(s, j, j) = ","
                     /\ \A k \in 1..(j - 1) : SubSeq(s, k, k) # ","
         IN  {SubSeq(s, 1, i - 1)} \cup SplitComma(SubSeq(s, i + 1, Len(s)))
    ELSE {s}

\* main(): project_identifiers = list(set(['omnishop'] + [detected] + user_projects))
ProjectIdentifiers(detected, projects) ==
    {"omnishop"}
      \cup (IF detected # None THEN {detected} ELSE {})
      \cup (IF projects # None THEN {Strip(p) : p \in SplitComma(projects)} ELSE {})

\* _is_project_resource comparing without regard to case.
is_project_resource_ignoring_case(identifiers, name) ==
    IF name = None THEN FALSE
    ELSE \E pid \in identifiers : Contains(Lower(name), Lower(pid))

\* AWSCleaner._is_project_resource, with self.project_identifiers as a parameter.
is_project_resource(identifiers, name) ==
    IF name = None THEN FALSE
    ELSE \E pid \in identifiers : Contains(name, pid)

\* The server-side filter {'Name': 'tag:Name', 'Values': ['*pid*', ...]}:
\* the resource has a Name tag and some pattern *pid* matches its value.
TagNameFilter(identifiers, nameTag) ==
    /\ nameTag # None
    /\ \E pid \in identifiers : Contains(nameTag, pid)

\* ------------------------------------------------------------- inputs
\* Values of --projects.
ProjectsValues == {None}

\* Values of --state-bucket.
StateBucketValues == {None, "omnishop-tf-state-a"}

\* Answers typed at the two yes/no prompts.
Answers == {"YES", "no"}

\* Answers typed at the bucket selection prompt.
Selections == {"", "2", "3"}

\* ----------------------------------------------------- provider state
\* The order in which the provider lists resources.
ListingOrder ==
    << "clb-1", "alb-1", "omnishop-eks", "other-eks",
       "/aws/eks/omnishop-eks/cluster", "/aws/eks/omnishop-eks/audit",
       "/aws/eks/other/cluster",
       "vpc-1", "vpc-2", "vpc-9",
       "i-1", "nat-1", "nat-2", "eip-1", "igw-1",
       "subnet-1", "subnet-2", "subnet-9",
       "rtb-main-1", "rtb-1", "rtb-main-2",
       "sg-default-1", "sg-a", "sg-b", "sg-default-2",
       "acl-default-1", "acl-1",
       "arn:aws:iam::1:oidc-provider/oidc.eks.us-east-1.amazonaws.com/id/A",
       "omnishop-eks-node-role", "acme-eks-cluster-role", "other-role",
       "omnishop-lb-policy", "AWSLoadBalancerControllerIAMPolicy", "other-policy",
       "alias/eks/omnishop-eks", "alias/omnishop-logs", "alias/other",
       "omnishop-tf-state-a", "omnishop-tf-state-b", "unrelated-bucket" >>

Listed(S) == SelectSeq(ListingOrder, LAMBDA x : x \in S)

Without(f, x) == [y \in (DOMAIN f) \ {x} |-> f[y]]

EmptyMap == [x \in {} |-> x]

\* schedule_key_deletion(..., PendingWindowInDays=7), line 76.
PendingWindowInDays == 7

\* An account holding nothing.
EmptyAccount ==
    [ clbs      |-> EmptyMap,   \* name -> [tags]
      albs      |-> EmptyMap,   \* arn  -> [name, tags]
      clusters  |-> EmptyMap,   \* name -> status
      logGroups |-> {},         \* names
      vpcs      |-> EmptyMap,   \* id -> [name, isDefault]
      instances |-> EmptyMap,   \* id -> [vpc, state]
      nats      |-> EmptyMap,   \* id -> [vpc, state]
      eips      |-> EmptyMap,   \* allocation id -> [name]
      igws      |-> EmptyMap,   \* id -> [vpc]
      subnets   |-> EmptyMap,   \* id -> [vpc]
      rts       |-> EmptyMap,   \* id -> [vpc, main]
      sgs       |-> EmptyMap,   \* id -> [vpc, name, ingress, egress]
      nacls     |-> EmptyMap,   \* id -> [vpc, isDefault]
      oidc      |-> EmptyMap,   \* arn -> [name]
      roles     |-> EmptyMap,   \* name -> [attached, inline, profiles]
      profiles  |-> {},         \* instance profile names
      policies  |-> EmptyMap,   \* name -> [versions]
      aliases   |-> EmptyMap,   \* alias name -> target key id
      keys      |-> EmptyMap,   \* key id -> key state
      windows   |-> EmptyMap,   \* key id -> days until a pending deletion happens
      buckets   |-> EmptyMap,   \* name -> has object versions
      tables    |-> EmptyMap ]  \* DynamoDB table name -> status

LockTable == "omnishop-tf-lock"

\* The end-to-end scenario of the specification: one VPC tagged omnishop-vpc
\* with one available NAT gateway, one subnet, two security groups that
\* reference each other, and no instances.
ScenarioAccount ==
    [ EmptyAccount EXCEPT
        !.vpcs    = ("vpc-1" :> [name |-> "omnishop-vpc", isDefault |-> FALSE]),
        !.nats    = ("nat-1" :> [vpc |-> "vpc-1", state |-> "available"]),
        !.subnets = ("subnet-1" :> [vpc |-> "vpc-1"]),
        !.sgs     = ("sg-a" :> [vpc |-> "vpc-1", name |-> "omnishop-a",
                                ingress |-> {"sg-b"}, egress |-> {}])
                    @@ ("sg-b" :> [vpc |-> "vpc-1", name |-> "omnishop-b",
                                   ingress |-> {"sg-a"}, egress |-> {"0.0.0.0/0"}]) ]

\* A populated account: two project VPCs, one foreign VPC, and one resource
\* of every kind the cleaner handles; among the roles and policies of other
\* owners, one of each carries a name the cleaner looks for by itself.
FullAccount ==
    [ clbs      |-> ("clb-1" :> [tags |-> {<<"kubernetes.io/cluster/omnishop", "owned">>}]),
      albs      |-> ("alb-1" :> [name |-> "omnishop-alb", tags |-> {}]),
      clusters  |-> ("omnishop-eks" :> "ACTIVE") @@ ("other-eks" :> "ACTIVE"),
      logGroups |-> {"/aws/eks/omnishop-eks/cluster", "/aws/eks/omnishop-eks/audit",
                     "/aws/eks/other/cluster"},
      vpcs      |-> ("vpc-1" :> [name |-> "omnishop-vpc", isDefault |-> FALSE])
                    @@ ("vpc-2" :> [name |-> "omnishop-eks-vpc", isDefault |-> FALSE])
                    @@ ("vpc-9" :> [name |-> "other-vpc", isDefault |-> FALSE]),
      instances |-> ("i-1" :> [vpc |-> "vpc-1", state |-> "running"]),
      nats      |-> ("nat-1" :> [vpc |-> "vpc-1", state |-> "available"])
                    @@ ("nat-2" :> [vpc |-> "vpc-2", state |-> "deleted"]),
      eips      |-> ("eip-1" :> [name |-> "omnishop-nat-eip"]),
      igws      |-> ("igw-1" :> [vpc |-> "vpc-1"]),
      subnets   |-> ("subnet-1" :> [vpc |-> "vpc-1"])
                    @@ ("subnet-2" :> [vpc |-> "vpc-2"])
                    @@ ("subnet-9" :> [vpc |-> "vpc-9"]),
      rts       |-> ("rtb-main-1" :> [vpc |-> "vpc-1", main |-> TRUE])
                    @@ ("rtb-1" :> [vpc |-> "vpc-1", main |-> FALSE])
                    @@ ("rtb-main-2" :> [vpc |-> "vpc-2", main |-> TRUE]),
      sgs       |-> ("sg-default-1" :> [vpc |-> "vpc-1", name |-> "default",
                                        ingress |-> {"sg-default-1"}, egress |-> {"0.0.0.0/0"}])
                    @@ ("sg-a" :> [vpc |-> "vpc-1", name |-> "omnishop-a",
                                   ingress |-> {"sg-b"}, egress |-> {"0.0.0.0/0"}])
                    @@ ("sg-b" :> [vpc |-> "vpc-1", name |-> "omnishop-b",
                                   ingress |-> {"sg-a"}, egress |-> {}])
                    @@ ("sg-default-2" :> [vpc |-> "vpc-2", name |-> "default",
                                           ingress |-> {"sg-default-2"}, egress |-> {"0.0.0.0/0"}]),
      nacls     |-> ("acl-default-1" :> [vpc |-> "vpc-1", isDefault |-> TRUE])
                    @@ ("acl-1" :> [vpc |-> "vpc-1", isDefault |-> FALSE]),
      oidc      |-> ("arn:aws:iam::1:oidc-provider/oidc.eks.us-east-1.amazonaws.com/id/A"
                        :> [name |-> "omnishop-eks-irsa"]),
      roles     |-> ("omnishop-eks-node-role" :>
                        [attached |-> {"arn:aws:iam::aws:policy/AmazonEKSWorkerNodePolicy"},
                         inline   |-> {"node-inline"},
                         profiles |-> {"omnishop-node-profile"}])
                    @@ ("acme-eks-cluster-role" :> [attached |-> {}, inline |-> {}, profiles |-> {}])
                    @@ ("other-role" :> [attached |-> {}, inline |-> {}, profiles |-> {}]),
      profiles  |-> {"omnishop-node-profile"},
      policies  |-> ("omnishop-lb-policy" :> [versions |-> {"v1"}])
                    @@ ("AWSLoadBalancerControllerIAMPolicy" :> [versions |-> {}])
                    @@ ("other-policy" :> [versions |-> {}]),
      aliases   |-> ("alias/eks/omnishop-eks" :> "key-1") @@ ("alias/omnishop-logs" :> "key-3")
                    @@ ("alias/other" :> "key-2"),
      keys      |-> ("key-1" :> "Enabled") @@ ("key-2" :> "Enabled")
                    @@ ("key-3" :> "PendingDeletion"),
      windows   |-> ("key-3" :> 30),
      buckets   |-> ("omnishop-tf-state-a" :> TRUE) @@ ("unrelated-bucket" :> TRUE),
      tables    |-> (LockTable :> "ACTIVE") ]

\* Two buckets carry the state marker, so that discovery has to ask; an
\* instance of the VPC is on its way out (terminated by an earlier run).
TwoBucketAccount ==
    [ ScenarioAccount EXCEPT
        !.instances = ("i-7" :> [vpc |-> "vpc-1", state |-> "shutting-down"]),
        !.buckets = ("omnishop-tf-state-a" :> TRUE) @@ ("omnishop-tf-state-b" :> TRUE),
        !.tables  = (LockTable :> "ACTIVE") ]

\* FullAccount as a forced run in which no call failed leaves it: what the
\* matcher selects is gone, what belongs to others is still there.
ResidualAccount ==
    [ FullAccount EXCEPT
        !.clbs      = EmptyMap,
        !.albs      = EmptyMap,
        !.clusters  = ("other-eks" :> "ACTIVE"),
        !.logGroups = {"/aws/eks/other/cluster"},
        !.vpcs      = ("vpc-9" :> [name |-> "other-vpc", isDefault |-> FALSE]),
        !.instances = ("i-1" :> [vpc |-> "vpc-1", state |-> "terminated"]),
        !.nats      = ("nat-1" :> [vpc |-> "vpc-1", state |-> "deleted"])
                      @@ ("nat-2" :> [vpc |-> "vpc-2", state |-> "deleted"]),
        !.eips      = EmptyMap,
        !.igws      = EmptyMap,
        !.subnets   = ("subnet-9" :> [vpc |-> "vpc-9"]),
        !.rts       = EmptyMap,
        !.sgs       = EmptyMap,
        !.nacls     = EmptyMap,
        !.oidc      = EmptyMap,
        !.roles     = ("other-role" :> [attached |-> {}, inline |-> {}, profiles |-> {}]),
        !.profiles  = {},
        !.policies  = ("other-policy" :> [versions |-> {}]),
        !.aliases   = ("alias/other" :> "key-2"),
        !.keys      = ("key-1" :> "PendingDeletion") @@ ("key-2" :> "Enabled")
                      @@ ("key-3" :> "PendingDeletion"),
        !.windows   = ("key-1" :> PendingWindowInDays) @@ ("key-3" :> 30),
        !.buckets   = ("unrelated-bucket" :> TRUE),
        !.tables    = EmptyMap ]

\* What a run finds around it: the default of variable "cluster_name" in
\* variables.tf (None when the file or the default is missing) and the account.
Environments ==
    { [cluster_name |-> None,           account |-> ScenarioAccount],
      [cluster_name |-> "omnishop-eks", account |-> FullAccount],
      [cluster_name |-> "omnishop-eks", account |-> TwoBucketAccount],
      [cluster_name |-> "omnishop-eks", account |-> ResidualAccount] }

\* -------------------------------------------------------------- state
VARIABLES
    pc,       \* position in main() and the method it is running
    args,     \* parsed command line: [force, state_bucket]
    ids,      \* project_identifiers
    account,  \* history: the provider's resources when the run started
    aws,      \* the provider's resources
    vpcQ,     \* force_delete_infrastructure: VPCs still to process (head = current)
    todo,     \* the list the current for-loop still has to walk
    snap,     \* a listing kept across steps, under the name of its kind (items, groups, aliases, count, vpcs)
    calls,    \* history: mutating/tool calls, NAT polls, raised reads, methods entered
    prompts,  \* history: prompts shown with the answer given
    report,   \* verify_cleanup: status_report
    faults,   \* number of calls that raised so far
    evaluated,\* the helper last evaluated on its own: its inputs and what it returned
    orders,   \* orders-service: the module-level list `orders`
    served    \* orders-service: the requests answered so far, with their responses

vars == <<pc, args, ids, account, aws, vpcQ, todo, snap, calls, prompts, report, faults,
          evaluated, orders, served>>

\* What no step of the run changes: the identifiers, the history of the
\* initial account, and the state outside the teardown run.
conf == <<ids, account, evaluated, orders, served>>

\* Whether the next call may raise.
Outcomes == IF faults < MaxFaults THEN {TRUE, FALSE} ELSE {TRUE}

Fault(ok) == faults' = faults + (IF ok THEN 0 ELSE 1)

\* The VPC the loop of force_delete_infrastructure is working on, if any.
CurVpc == IF vpcQ = <<>> THEN None ELSE Head(vpcQ)

\* The provider or tool call made at each position where the call only reads.
ReadOp ==
    [ discover       |-> "list_buckets",
      clb_list       |-> "elb.describe_load_balancers",
      clb_tags       |-> "elb.describe_tags",
      alb_list       |-> "elbv2.describe_load_balancers",
      alb_tags       |-> "elbv2.describe_tags",
      eks_list       |-> "list_clusters",
      eks_wait       |-> "wait_cluster_deleted",
      logs_list      |-> "describe_log_groups",
      vpc_list       |-> "describe_vpcs",
      inst_list      |-> "describe_instances",
      inst_wait      |-> "wait_instance_terminated",
      nat_list       |-> "describe_nat_gateways",
      nat_poll       |-> "poll_nat_gateways",
      eip_list       |-> "describe_addresses",
      igw_list       |-> "describe_internet_gateways",
      subnet_list    |-> "describe_subnets",
      rt_list        |-> "describe_route_tables",
      sg_list        |-> "describe_security_groups",
      oidc_list      |-> "list_open_id_connect_providers",
      oidc_tags      |-> "list_open_id_connect_provider_tags",
      role_list      |-> "list_roles",
      role_attached  |-> "list_attached_role_policies",
      role_inline    |-> "list_role_policies",
      role_profiles  |-> "list_instance_profiles_for_role",
      policy_list    |-> "list_policies",
      policy_versions |-> "list_policy_versions",
      kms_list       |-> "list_aliases",
      kms_describe   |-> "describe_key",
      s3_head        |-> "head_bucket",
      ddb_wait       |-> "wait_table_not_exists",
      v_clusters     |-> "list_clusters",
      v_clb          |-> "elb.describe_load_balancers",
      v_alb          |-> "elbv2.describe_load_balancers",
      v_nat_active   |-> "describe_nat_gateways",
      v_nat_deleting |-> "describe_nat_gateways",
      v_vpcs         |-> "describe_vpcs",
      v_subnets      |-> "describe_subnets",
      v_sgs          |-> "describe_security_groups",
      v_nacls        |-> "describe_network_acls",
      v_roles        |-> "list_roles",
      v_policies     |-> "list_policies" ]

\* One entry of the history of calls: what was called, on what, while working
\* on which VPC, whether it returned (ok) or raised, and whether it is a
\* call that changes something ("mutate"), runs terraform ("tool") or reads.
Call(kind, op, id, ok) ==
    [kind |-> kind, op |-> op, id |-> id, vpc |-> CurVpc, ok |-> ok]

\* A call that changes provider state: always recorded.  `ok` is whether the
\* environment lets it through, `done` whether it returned.
MutateIf(ok, op, id, done) ==
    /\ Fault(ok)
    /\ calls' = Append(calls, Call("mutate", op, id, done))

Mutate(ok, op, id) == MutateIf(ok, op, id, ok)

\* A run of the terraform executable.
Tool(ok, op) ==
    /\ Fault(ok)
    /\ calls' = Append(calls, Call("tool", op, args.state_bucket, ok))

\* main() or force_delete_infrastructure() entering a method.
Enter(method) == calls' = Append(calls, Call("enter", method, None, TRUE))

\* A call that only reads: recorded when it raises.
Read(ok) ==
    /\ Fault(ok)
    /\ calls' = IF ok THEN calls ELSE Append(calls, Call("read", ReadOp[pc], None, FALSE))

Init ==
    /\ pc = "discover"
    /\ \E f \in BOOLEAN, b \in StateBucketValues :
           args = [force |-> f, state_bucket |-> b]
    /\ \E e \in Environments, p \in ProjectsValues :
           /\ ids = ProjectIdentifiers(e.cluster_name, p)
           /\ aws = e.account
    /\ account = aws
    /\ vpcQ = <<>>
    /\ todo = <<>>
    /\ snap = [items |-> <<>>]
    /\ calls = <<>>
    /\ prompts = <<>>
    /\ report = <<>>
    /\ faults = 0
    /\ evaluated = <<>>
    /\ orders = <<>>
    /\ served = <<>>

\* ------------------------------------------------------------- main()
StateMarker == "omnishop-tf-state"

\* main(): auto-discovery of the state bucket (skipped when --state-bucket or
\* --force is given).  list_buckets may raise; the handler only prints.
Candidates == Listed({b \in DOMAIN aws.buckets : Contains(b, StateMarker)})

DiscoverBucket ==
    /\ pc = "discover"
    /\ IF args.state_bucket = None /\ ~args.force
       THEN \E ok \in Outcomes :
              /\ Read(ok)
              /\ IF ~ok \/ Len(Candidates) = 0
                 THEN UNCHANGED <<args, prompts>>
                 ELSE IF Len(Candidates) = 1
                 THEN /\ args' = [args EXCEPT !.state_bucket = Candidates[1]]
                      /\ UNCHANGED prompts
                 ELSE \E selection \in Selections :
                        /\ prompts' = Append(prompts, [prompt |-> "select", answer |-> selection])
                        /\ args' = IF /\ IsDigit(selection)
                                      /\ 1 <= ToInt(selection)
                                      /\ ToInt(selection) <= Len(Candidates)
                                   THEN [args EXCEPT !.state_bucket = Candidates[ToInt(selection)]]
                                   ELSE args
       ELSE UNCHANGED <<args, prompts, faults, calls>>
    /\ pc' = "confirm"
    /\ UNCHANGED <<conf, aws, vpcQ, todo, snap, report>>

\* A confirmation that takes any typed answer for consent.
AnswerGiven(answer) == answer # None

\* confirm.lower() == 'yes'
Affirmative(answer) == Lower(answer) = "yes"

\* A main() whose confirmed branch skips line 633 and starts with the destroy.
ConfirmThenDestroy ==
    /\ pc = "confirm"
    /\ \E answer \in Answers :
         /\ prompts' = Append(prompts, [prompt |-> "confirm", answer |-> answer])
         /\ pc' = IF Lower(answer) # "yes" THEN "cancelled"
                  ELSE IF args.force THEN "force_enter" ELSE "tf_enter"
    /\ UNCHANGED <<args, conf, aws, vpcQ, todo, snap, calls, report, faults>>

\* main(): "Are you sure you want to proceed? (yes/no)"
Confirm ==
    /\ pc = "confirm"
    /\ \E answer \in Answers :
         /\ prompts' = Append(prompts, [prompt |-> "confirm", answer |-> answer])
         /\ pc' = IF Affirmative(answer) THEN "lb_enter" ELSE "cancelled"
    /\ UNCHANGED <<args, conf, aws, vpcQ, todo, snap, calls, report, faults>>

\* ------------------------------------------- cleanup_load_balancers()
\* A main() that goes on to the declarative destroy whatever --force says.
AfterLoadBalancersToTerraform == "tf_enter"

\* Where main() goes once cleanup_load_balancers has returned (lines 635-638).
AfterLoadBalancers == IF args.force THEN "force_enter" ELSE "tf_enter"

\* main() line 633: cleaner.cleanup_load_balancers()
EnterLoadBalancers ==
    /\ pc = "lb_enter"
    /\ Enter("cleanup_load_balancers")
    /\ pc' = "clb_list"
    /\ UNCHANGED <<args, conf, aws, vpcQ, todo, snap, prompts, report, faults>>

\* for-loop step: the loop body at `body` for the next element, or `after`.
Loop(rest, body, after) == IF rest = <<>> THEN after ELSE body

\* Classic LB: a tag key kubernetes.io/cluster/<pid>, or a tag value containing a pid.
ClassicIsTarget(identifiers, tags) ==
    \/ \E pid \in identifiers, t \in tags : t[1] = "kubernetes.io/cluster/" \o pid
    \/ \E pid \in identifiers, t \in tags : Contains(t[2], pid)

\* V2 LB: a tag value containing a pid, or any tag key containing kubernetes.io/cluster.
V2IsTarget(identifiers, tags) ==
    \/ \E pid \in identifiers, t \in tags : Contains(t[2], pid)
    \/ \E t \in tags : Contains(t[1], "kubernetes.io/cluster")

\* Lines 95-106: `if self._is_project_resource(lb_name) or is_target`, where
\* is_target stays False when describe_tags raised (ok = FALSE).
ClassicLBMatches(identifiers, name, tags, ok) ==
    is_project_resource(identifiers, name) \/ (ok /\ ClassicIsTarget(identifiers, tags))

\* Lines 120-130: the same test for an application/network load balancer.
V2LBMatches(identifiers, name, tags, ok) ==
    is_project_resource(identifiers, name) \/ (ok /\ V2IsTarget(identifiers, tags))

\* elb.describe_load_balancers(); a failure skips the classic LBs.
ListClassicLBs ==
    /\ pc = "clb_list"
    /\ \E ok \in Outcomes :
         /\ Read(ok)
         /\ todo' = IF ok THEN Listed(DOMAIN aws.clbs) ELSE <<>>
         /\ pc' = Loop(todo', "clb_tags", "alb_list")
    /\ UNCHANGED <<args, conf, aws, vpcQ, snap, prompts, report>>

\* elb.describe_tags(); a failure leaves is_target False (bare except: pass).
TagsClassicLB ==
    /\ pc = "clb_tags"
    /\ \E ok \in Outcomes :
         /\ Read(ok)
         /\ LET name == Head(todo)
            IN  IF ClassicLBMatches(ids, name, aws.clbs[name].tags, ok)
                THEN pc' = "clb_delete" /\ todo' = todo
                ELSE pc' = Loop(Tail(todo), "clb_tags", "alb_list") /\ todo' = Tail(todo)
    /\ UNCHANGED <<args, conf, aws, vpcQ, snap, prompts, report>>

\* elb.delete_load_balancer(); a failure is logged and the loop goes on.
DeleteClassicLB ==
    /\ pc = "clb_delete"
    /\ \E ok \in Outcomes :
         /\ Mutate(ok, "delete_load_balancer", Head(todo))
         /\ aws' = IF ok THEN [aws EXCEPT !.clbs = Without(@, Head(todo))] ELSE aws
    /\ todo' = Tail(todo)
    /\ pc' = Loop(todo', "clb_tags", "alb_list")
    /\ UNCHANGED <<args, conf, vpcQ, snap, prompts, report>>

\* elbv2.describe_load_balancers(); a failure skips the V2 LBs.
ListV2LBs ==
    /\ pc = "alb_list"
    /\ \E ok \in Outcomes :
         /\ Read(ok)
         /\ todo' = IF ok THEN Listed(DOMAIN aws.albs) ELSE <<>>
         /\ pc' = Loop(todo', "alb_tags", AfterLoadBalancers)
    /\ UNCHANGED <<args, conf, aws, vpcQ, snap, prompts, report>>

\* elbv2.describe_tags(); a failure leaves is_target False.
TagsV2LB ==
    /\ pc = "alb_tags"
    /\ \E ok \in Outcomes :
         /\ Read(ok)
         /\ LET arn == Head(todo)
            IN  IF V2LBMatches(ids, aws.albs[arn].name, aws.albs[arn].tags, ok)
                THEN pc' = "alb_delete" /\ todo' = todo
                ELSE pc' = Loop(Tail(todo), "alb_tags", AfterLoadBalancers) /\ todo' = Tail(todo)
    /\ UNCHANGED <<args, conf, aws, vpcQ, snap, prompts, report>>

\* elbv2.delete_load_balancer(); a failure is logged and the loop goes on.
\* The closing time.sleep(15) changes nothing the run reads.
DeleteV2LB ==
    /\ pc = "alb_delete"
    /\ \E ok \in Outcomes :
         /\ Mutate(ok, "delete_load_balancer_v2", Head(todo))
         /\ aws' = IF ok THEN [aws EXCEPT !.albs = Without(@, Head(todo))] ELSE aws
    /\ todo' = Tail(todo)
    /\ pc' = Loop(todo', "alb_tags", AfterLoadBalancers)
    /\ UNCHANGED <<args, conf, vpcQ, snap, prompts, report>>

\* ---------------------------------------------- run_terraform_destroy()
\* A run_terraform_destroy without the early return of lines 145-147.
TerraformAlways == TRUE

\* Line 145: terraform is run only with a state bucket.
TerraformApplicable == args.state_bucket # None

\* Lines 145-147: without a state bucket the method returns at once.
EnterTerraformDestroy ==
    /\ pc = "tf_enter"
    /\ Enter("run_terraform_destroy")
    /\ pc' = IF TerraformApplicable THEN "tf_init" ELSE "force_prompt"
    /\ UNCHANGED <<args, conf, aws, vpcQ, todo, snap, prompts, report, faults>>

\* A terraform init whose exit status is not looked at (no check=True).
TerraformInitUnchecked ==
    /\ pc = "tf_init"
    /\ \E ok \in Outcomes : Tool(ok, "terraform_init")
    /\ pc' = "tf_destroy"
    /\ UNCHANGED <<args, conf, aws, vpcQ, todo, snap, prompts, report>>

\* subprocess.run(["terraform", "init", ...], check=True): a non-zero exit
\* raises CalledProcessError, caught at line 168.
TerraformInit ==
    /\ pc = "tf_init"
    /\ \E ok \in Outcomes :
         /\ Tool(ok, "terraform_init")
         /\ pc' = IF ok THEN "tf_destroy" ELSE "force_prompt"
    /\ UNCHANGED <<args, conf, aws, vpcQ, todo, snap, prompts, report>>

\* subprocess.run(["terraform", "destroy", "-auto-approve", ...], check=True).
\* What the tool removes is its own business: the script reads only the exit
\* status, and the accounts of Init stand for what the tool may leave behind.
TerraformDestroy ==
    /\ pc = "tf_destroy"
    /\ \E ok \in Outcomes : Tool(ok, "terraform_destroy")
    /\ pc' = "force_prompt"
    /\ UNCHANGED <<args, conf, aws, vpcQ, todo, snap, prompts, report>>

\* main() lines 641-644: with no state bucket, ask whether to force delete.
ForcePrompt ==
    /\ pc = "force_prompt"
    /\ IF args.state_bucket = None
       THEN \E answer \in Answers :
              /\ prompts' = Append(prompts, [prompt |-> "force_confirm", answer |-> answer])
              /\ pc' = IF Affirmative(answer) THEN "force_enter" ELSE "s3_enter"
       ELSE pc' = "s3_enter" /\ UNCHANGED prompts
    /\ UNCHANGED <<args, conf, aws, vpcQ, todo, snap, calls, report, faults>>

\* ---------------------------------------- force_delete_infrastructure()
SelectIds(S, Test(_)) == SelectSeq(Listed(S), Test)

StartsWith(s, prefix) == Len(prefix) <= Len(s) /\ SubSeq(s, 1, Len(prefix)) = prefix

\* A run that an exception has left: nothing after the raising call executes.
Crash ==
    /\ pc' = "crashed"
    /\ UNCHANGED <<args, conf, aws, vpcQ, todo, snap, prompts, report>>

\* A forced deletion that removes identities before the networks.
ForcePhaseOrderIamFirst ==
    <<"eks_list", "logs_list", "oidc_list", "role_list", "policy_list", "vpc_list", "kms_list", "s3_enter">>

\* The order of the blocks of force_delete_infrastructure (lines 221-448);
\* after the last one the method returns to main(), which goes on with
\* cleanup_state_store().
ForcePhaseOrder ==
    << "eks_list", "logs_list", "vpc_list", "oidc_list", "role_list",
       "policy_list", "kms_list", "s3_enter" >>

\* A VPC loop without the subnet phase.
VpcPhaseOrderWithoutSubnets ==
    <<"inst_list", "nat_list", "eip_list", "igw_list", "rt_list", "sg_list", "vpc_delete">>

\* A VPC loop that deletes subnets before the NAT gateways.
VpcPhaseOrderSubnetsFirst ==
    <<"inst_list", "subnet_list", "nat_list", "eip_list", "igw_list", "rt_list", "sg_list", "vpc_delete">>

\* The order of the blocks of the body of `for vpc in vpcs` (lines 267-368).
VpcPhaseOrder ==
    << "inst_list", "nat_list", "eip_list", "igw_list", "subnet_list",
       "rt_list", "sg_list", "vpc_delete" >>

Following(order, p) == order[(CHOOSE i \in 1..Len(order) : order[i] = p) + 1]

\* The block that follows block p of force_delete_infrastructure.
AfterForcePhase(p) == Following(ForcePhaseOrder, p)

\* The block that follows block p of the VPC loop body.
AfterPhase(p) == Following(VpcPhaseOrder, p)

\* force_delete_infrastructure() is entered (line 219).
EnterForceDelete ==
    /\ pc = "force_enter"
    /\ Enter("force_delete_infrastructure")
    /\ pc' = ForcePhaseOrder[1]
    /\ UNCHANGED <<args, conf, aws, vpcQ, todo, snap, prompts, report, faults>>

\* eks.list_clusters(); the loop body only acts on matching clusters.
ListClusters ==
    /\ pc = "eks_list"
    /\ \E ok \in Outcomes :
         /\ Read(ok)
         /\ todo' = IF ok
                    THEN SelectIds(DOMAIN aws.clusters, LAMBDA c : is_project_resource(ids, c))
                    ELSE <<>>
         /\ pc' = Loop(todo', "eks_delete", AfterForcePhase("eks_list"))
    /\ UNCHANGED <<args, conf, aws, vpcQ, snap, prompts, report>>

\* delete_cluster without the wait for the cluster to be gone.
DeleteClusterWithoutWait ==
    /\ pc = "eks_delete"
    /\ \E ok \in Outcomes :
         /\ Mutate(ok, "delete_cluster", Head(todo))
         /\ aws' = IF ok THEN [aws EXCEPT !.clusters[Head(todo)] = "DELETING"] ELSE aws
    /\ todo' = Tail(todo)
    /\ pc' = Loop(todo', "eks_delete", AfterForcePhase("eks_list"))
    /\ UNCHANGED <<args, conf, vpcQ, snap, prompts, report>>

\* eks.delete_cluster(); a failure is logged and the next cluster follows.
DeleteCluster ==
    /\ pc = "eks_delete"
    /\ \E ok \in Outcomes :
         /\ Mutate(ok, "delete_cluster", Head(todo))
         /\ IF ok
            THEN /\ aws' = [aws EXCEPT !.clusters[Head(todo)] = "DELETING"]
                 /\ pc' = "eks_wait"
                 /\ todo' = todo
            ELSE /\ aws' = aws
                 /\ todo' = Tail(todo)
                 /\ pc' = Loop(todo', "eks_delete", AfterForcePhase("eks_list"))
    /\ UNCHANGED <<args, conf, vpcQ, snap, prompts, report>>

\* eks.get_waiter('cluster_deleted').wait(): returns once the cluster is gone,
\* raises when it gives up; both ways the next cluster follows.
WaitClusterDeleted ==
    /\ pc = "eks_wait"
    /\ \E ok \in Outcomes :
         /\ Read(ok)
         /\ aws' = IF ok THEN [aws EXCEPT !.clusters = Without(@, Head(todo))] ELSE aws
    /\ todo' = Tail(todo)
    /\ pc' = Loop(todo', "eks_delete", AfterForcePhase("eks_list"))
    /\ UNCHANGED <<args, conf, vpcQ, snap, prompts, report>>

\* logs.describe_log_groups(logGroupNamePrefix='/aws/eks/').
ListLogGroups ==
    /\ pc = "logs_list"
    /\ \E ok \in Outcomes :
         /\ Read(ok)
         /\ todo' = IF ok
                    THEN SelectIds(aws.logGroups,
                                   LAMBDA g : StartsWith(g, "/aws/eks/")
                                              /\ is_project_resource(ids, g))
                    ELSE <<>>
         /\ pc' = Loop(todo', "logs_delete", AfterForcePhase("logs_list"))
    /\ UNCHANGED <<args, conf, aws, vpcQ, snap, prompts, report>>

\* logs.delete_log_group(): the only handler is the one around the whole
\* loop (line 249), so a failure ends the log-group phase.
DeleteLogGroup ==
    /\ pc = "logs_delete"
    /\ \E ok \in Outcomes :
         /\ Mutate(ok, "delete_log_group", Head(todo))
         /\ IF ok
            THEN /\ aws' = [aws EXCEPT !.logGroups = @ \ {Head(todo)}]
                 /\ todo' = Tail(todo)
                 /\ pc' = Loop(todo', "logs_delete", AfterForcePhase("logs_list"))
            ELSE /\ aws' = aws
                 /\ todo' = <<>>
                 /\ pc' = AfterForcePhase("logs_list")
    /\ UNCHANGED <<args, conf, vpcQ, snap, prompts, report>>

\* ec2.describe_vpcs(Filters=tag:Name *pid*): not inside any try.
ListVpcs ==
    /\ pc = "vpc_list"
    /\ \E ok \in Outcomes :
         /\ Read(ok)
         /\ IF ok
            THEN /\ vpcQ' = SelectIds(DOMAIN aws.vpcs,
                                      LAMBDA v : TagNameFilter(ids, aws.vpcs[v].name))
                 /\ pc' = Loop(vpcQ', VpcPhaseOrder[1], AfterForcePhase("vpc_list"))
                 /\ UNCHANGED <<args, conf, aws, todo, snap, prompts, report>>
            ELSE Crash /\ vpcQ' = vpcQ

InVpc(f, v) == {x \in DOMAIN f : f[x].vpc = v}

\* The instance-state-name filter of line 270.
LiveInstanceStates == {"running", "stopped", "stopping", "pending"}

\* ec2.describe_instances() for the current VPC: not inside any try.
ListInstances ==
    /\ pc = "inst_list"
    /\ UNCHANGED vpcQ
    /\ \E ok \in Outcomes :
         /\ Read(ok)
         /\ IF ok
            THEN /\ snap' = [items |-> SelectIds(InVpc(aws.instances, Head(vpcQ)),
                                                 LAMBDA i : aws.instances[i].state \in LiveInstanceStates)]
                 /\ pc' = IF snap'.items # <<>> THEN "inst_terminate" ELSE AfterPhase("inst_list")
                 /\ UNCHANGED <<args, conf, aws, todo, prompts, report>>
            ELSE Crash

SetState(f, S, st) == [x \in DOMAIN f |-> IF x \in S THEN [f[x] EXCEPT !.state = st] ELSE f[x]]

Range(q) == {q[i] : i \in 1..Len(q)}

\* ec2.terminate_instances(InstanceIds=instance_ids): not inside any try.
TerminateInstances ==
    /\ pc = "inst_terminate"
    /\ UNCHANGED vpcQ
    /\ \E ok \in Outcomes :
         /\ Mutate(ok, "terminate_instances", Head(snap.items))
         /\ IF ok
            THEN /\ aws' = [aws EXCEPT !.instances = SetState(@, Range(snap.items), "shutting-down")]
                 /\ pc' = "inst_wait"
                 /\ UNCHANGED <<args, conf, todo, snap, prompts, report>>
            ELSE Crash

\* ec2.get_waiter('instance_terminated').wait(): not inside any try.
WaitInstancesTerminated ==
    /\ pc = "inst_wait"
    /\ UNCHANGED vpcQ
    /\ \E ok \in Outcomes :
         /\ Read(ok)
         /\ IF ok
            THEN /\ aws' = [aws EXCEPT !.instances = SetState(@, Range(snap.items), "terminated")]
                 /\ pc' = AfterPhase("inst_list")
                 /\ UNCHANGED <<args, conf, todo, snap, prompts, report>>
            ELSE Crash

\* ec2.describe_nat_gateways() for the current VPC, every state: `nats`.
\* The loop deletes those whose listed state is not 'deleted'.
ListNatGateways ==
    /\ pc = "nat_list"
    /\ UNCHANGED vpcQ
    /\ \E ok \in Outcomes :
         /\ Read(ok)
         /\ IF ok
            THEN /\ snap' = [items |-> Listed(InVpc(aws.nats, Head(vpcQ)))]
                 /\ todo' = SelectSeq(snap'.items, LAMBDA n : aws.nats[n].state # "deleted")
                 /\ pc' = IF todo' # <<>> THEN "nat_delete"
                          ELSE IF snap'.items # <<>> THEN "nat_poll" ELSE AfterPhase("nat_list")
                 /\ UNCHANGED <<args, conf, aws, prompts, report>>
            ELSE Crash

\* ec2.delete_nat_gateway(): not inside any try.  The gateway starts deleting.
DeleteNatGateway ==
    /\ pc = "nat_delete"
    /\ UNCHANGED vpcQ
    /\ \E ok \in Outcomes :
         /\ Mutate(ok, "delete_nat_gateway", Head(todo))
         /\ IF ok
            THEN /\ aws' = [aws EXCEPT !.nats[Head(todo)].state =
                                 IF @ = "deleted" THEN "deleted" ELSE "deleting"]
                 /\ todo' = Tail(todo)
                 /\ pc' = Loop(todo', "nat_delete", "nat_poll")
                 /\ UNCHANGED <<args, conf, snap, prompts, report>>
            ELSE Crash

\* A poll that also waits for gateways the provider still lists as deleted.
PollStatesWithDeleted == {"pending", "available", "deleting", "deleted"}

\* A poll that does not wait for gateways that are still deleting.
PollStatesWithoutDeleting == {"pending", "available"}

\* The state filter of the poll at line 296.
PollStates == {"pending", "available", "deleting"}

Remaining(v) == {n \in InVpc(aws.nats, v) : aws.nats[n].state \in PollStates}

\* History of the polls: a poll that sees gateways is recorded once per wait.
Polled(seen) ==
    LET c == Call("read", "poll_nat_gateways", IF seen = {} THEN "none" ELSE "some", TRUE)
    IN  IF calls # <<>> /\ calls[Len(calls)] = c THEN calls ELSE Append(calls, c)

\* while True: describe_nat_gateways(state in pending/available/deleting);
\* break when none remains, else sleep 5 s and poll again.  Not inside any try.
PollNatGateways ==
    /\ pc = "nat_poll"
    /\ UNCHANGED vpcQ
    /\ \E ok \in Outcomes :
         /\ Fault(ok)
         /\ IF ok
            THEN /\ calls' = Polled(Remaining(Head(vpcQ)))
                 /\ pc' = IF Remaining(Head(vpcQ)) = {} THEN AfterPhase("nat_list") ELSE "nat_poll"
                 /\ UNCHANGED <<args, conf, aws, todo, snap, prompts, report>>
            ELSE /\ Crash
                 /\ calls' = Append(calls, Call("read", "poll_nat_gateways", None, FALSE))

\* The provider: a pending gateway becomes available, a deleting one deleted.
NatGatewayProgress ==
    /\ pc \notin {"cancelled", "crashed", "done"}
    /\ \E n \in DOMAIN aws.nats :
         /\ aws.nats[n].state \in {"pending", "deleting"}
         /\ aws' = [aws EXCEPT !.nats[n].state =
                         IF @ = "pending" THEN "available" ELSE "deleted"]
    /\ UNCHANGED <<pc, args, conf, vpcQ, todo, snap, calls, prompts, report, faults>>

\* ec2.describe_addresses(Filters=tag:Name *pid*): not inside any try.
ListAddresses ==
    /\ pc = "eip_list"
    /\ UNCHANGED vpcQ
    /\ \E ok \in Outcomes :
         /\ Read(ok)
         /\ IF ok
            THEN /\ todo' = SelectIds(DOMAIN aws.eips,
                                      LAMBDA e : TagNameFilter(ids, aws.eips[e].name))
                 /\ pc' = Loop(todo', "eip_release", AfterPhase("eip_list"))
                 /\ UNCHANGED <<args, conf, aws, snap, prompts, report>>
            ELSE Crash

\* ec2.release_address(); a failure is logged and the loop goes on.
ReleaseAddress ==
    /\ pc = "eip_release"
    /\ \E ok \in Outcomes :
         /\ Mutate(ok, "release_address", Head(todo))
         /\ aws' = IF ok THEN [aws EXCEPT !.eips = Without(@, Head(todo))] ELSE aws
    /\ todo' = Tail(todo)
    /\ pc' = Loop(todo', "eip_release", AfterPhase("eip_list"))
    /\ UNCHANGED <<args, conf, vpcQ, snap, prompts, report>>

\* ec2.describe_internet_gateways(attachment.vpc-id): not inside any try.
ListInternetGateways ==
    /\ pc = "igw_list"
    /\ UNCHANGED vpcQ
    /\ \E ok \in Outcomes :
         /\ Read(ok)
         /\ IF ok
            THEN /\ todo' = Listed(InVpc(aws.igws, Head(vpcQ)))
                 /\ pc' = Loop(todo', "igw_detach", AfterPhase("igw_list"))
                 /\ UNCHANGED <<args, conf, aws, snap, prompts, report>>
            ELSE Crash

\* ec2.detach_internet_gateway(): not inside any try.
DetachInternetGateway ==
    /\ pc = "igw_detach"
    /\ UNCHANGED vpcQ
    /\ \E ok \in Outcomes :
         /\ Mutate(ok, "detach_internet_gateway", Head(todo))
         /\ IF ok
            THEN /\ aws' = [aws EXCEPT !.igws[Head(todo)].vpc = None]
                 /\ pc' = "igw_delete"
                 /\ UNCHANGED <<args, conf, todo, snap, prompts, report>>
            ELSE Crash

\* ec2.delete_internet_gateway(): not inside any try.
DeleteInternetGateway ==
    /\ pc = "igw_delete"
    /\ UNCHANGED vpcQ
    /\ \E ok \in Outcomes :
         /\ Mutate(ok, "delete_internet_gateway", Head(todo))
         /\ IF ok
            THEN /\ aws' = [aws EXCEPT !.igws = Without(@, Head(todo))]
                 /\ todo' = Tail(todo)
                 /\ pc' = Loop(todo', "igw_detach", AfterPhase("igw_list"))
                 /\ UNCHANGED <<args, conf, snap, prompts, report>>
            ELSE Crash

\* ec2.describe_subnets(vpc-id): not inside any try.
ListSubnets ==
    /\ pc = "subnet_list"
    /\ UNCHANGED vpcQ
    /\ \E ok \in Outcomes :
         /\ Read(ok)
         /\ IF ok
            THEN /\ todo' = Listed(InVpc(aws.subnets, Head(vpcQ)))
                 /\ pc' = Loop(todo', "subnet_delete", AfterPhase("subnet_list"))
                 /\ UNCHANGED <<args, conf, aws, snap, prompts, report>>
            ELSE Crash

\* The provider refuses (DependencyViolation) to delete a subnet that still
\* holds a network interface: an instance not yet terminated, a NAT gateway
\* not yet deleted.
SubnetFree(v) ==
    /\ \A i \in InVpc(aws.instances, v) : aws.instances[i].state = "terminated"
    /\ \A n \in InVpc(aws.nats, v) : aws.nats[n].state \in {"deleted", "failed"}

\* ec2.delete_subnet(); a failure is logged and the loop goes on.
DeleteSubnet ==
    /\ pc = "subnet_delete"
    /\ \E ok \in Outcomes :
         /\ MutateIf(ok, "delete_subnet", Head(todo), ok /\ SubnetFree(Head(vpcQ)))
         /\ aws' = IF ok /\ SubnetFree(Head(vpcQ))
                   THEN [aws EXCEPT !.subnets = Without(@, Head(todo))]
                   ELSE aws
    /\ todo' = Tail(todo)
    /\ pc' = Loop(todo', "subnet_delete", AfterPhase("subnet_list"))
    /\ UNCHANGED <<args, conf, vpcQ, snap, prompts, report>>

\* describe_route_tables with a loop that takes every table, the main one too.
ListRouteTablesWithMain ==
    /\ pc = "rt_list"
    /\ UNCHANGED vpcQ
    /\ \E ok \in Outcomes :
         /\ Read(ok)
         /\ IF ok
            THEN /\ todo' = Listed(InVpc(aws.rts, Head(vpcQ)))
                 /\ pc' = Loop(todo', "rt_delete", AfterPhase("rt_list"))
                 /\ UNCHANGED <<args, conf, aws, snap, prompts, report>>
            ELSE Crash

\* ec2.describe_route_tables(vpc-id): not inside any try.  The loop skips
\* the table that has a Main association.
ListRouteTables ==
    /\ pc = "rt_list"
    /\ UNCHANGED vpcQ
    /\ \E ok \in Outcomes :
         /\ Read(ok)
         /\ IF ok
            THEN /\ todo' = SelectIds(InVpc(aws.rts, Head(vpcQ)), LAMBDA r : ~aws.rts[r].main)
                 /\ pc' = Loop(todo', "rt_delete", AfterPhase("rt_list"))
                 /\ UNCHANGED <<args, conf, aws, snap, prompts, report>>
            ELSE Crash

\* ec2.delete_route_table(); a failure is logged and the loop goes on.
DeleteRouteTable ==
    /\ pc = "rt_delete"
    /\ \E ok \in Outcomes :
         /\ Mutate(ok, "delete_route_table", Head(todo))
         /\ aws' = IF ok THEN [aws EXCEPT !.rts = Without(@, Head(todo))] ELSE aws
    /\ todo' = Tail(todo)
    /\ pc' = Loop(todo', "rt_delete", AfterPhase("rt_list"))
    /\ UNCHANGED <<args, conf, vpcQ, snap, prompts, report>>

\* A single pass: the groups are deleted without revoking their rules.
SecurityGroupSinglePass == "sg_delete"

\* The two loops over `sgs`: first the revocation of every group's rules
\* (lines 341-350), then, after time.sleep(5), the deletes (lines 354-360).
SecurityGroupPass1 == "sg_revoke"

SecurityGroupPass2 == "sg_delete"

\* ec2.describe_security_groups(vpc-id): not inside any try.  `sgs` is kept
\* for both passes: snap holds the listed groups that are not named
\* 'default', with the rules they had when listed.
ListSecurityGroups ==
    /\ pc = "sg_list"
    /\ UNCHANGED vpcQ
    /\ \E ok \in Outcomes :
         /\ Read(ok)
         /\ IF ok
            THEN /\ todo' = SelectIds(InVpc(aws.sgs, Head(vpcQ)),
                                      LAMBDA g : aws.sgs[g].name # "default")
                 /\ snap' = [groups |-> [i \in 1..Len(todo') |->
                                           [id      |-> todo'[i],
                                            ingress |-> aws.sgs[todo'[i]].ingress,
                                            egress  |-> aws.sgs[todo'[i]].egress]]]
                 /\ pc' = Loop(todo', SecurityGroupPass1, AfterPhase("sg_list"))
                 /\ UNCHANGED <<args, conf, aws, prompts, report>>
            ELSE Crash

\* The entry of `sgs` for group g.
Listing(g) == snap.groups[CHOOSE i \in 1..Len(snap.groups) : snap.groups[i].id = g]

\* The calls of one pass-1 iteration, given which of them return: ingress is
\* revoked when the listed IpPermissions is non-empty; egress likewise, unless
\* the ingress call raised (one try around both).
RevokeCalls(g, okIn, okEg) ==
    (IF Listing(g).ingress # {}
     THEN <<Call("mutate", "revoke_security_group_ingress", g, okIn)>> ELSE <<>>)
    \o
    (IF Listing(g).egress # {} /\ (Listing(g).ingress = {} \/ okIn)
     THEN <<Call("mutate", "revoke_security_group_egress", g, okEg)>> ELSE <<>>)

\* Pass 1, one group: revoke_security_group_ingress then _egress; a failure
\* of either is logged and the next group follows.  After the last group
\* comes time.sleep(5) and pass 2 over the same `sgs`.
RevokeRules ==
    /\ pc = "sg_revoke"
    /\ LET g == Head(todo)
           l == Listing(g)
       IN  \E okIn \in Outcomes :
             \E okEg \in (IF okIn THEN Outcomes ELSE {TRUE}) :
               LET callIn == l.ingress # {}
                   callEg == l.egress # {} /\ (~callIn \/ okIn)
                   doneIn == callIn /\ okIn
                   doneEg == callEg /\ okEg
               IN  /\ faults' = faults + (IF callIn /\ ~okIn THEN 1 ELSE 0)
                                       + (IF callEg /\ ~okEg THEN 1 ELSE 0)
                   /\ (callIn \/ okIn) /\ (callEg \/ okEg)
                   /\ aws' = [aws EXCEPT
                                !.sgs[g].ingress = IF doneIn THEN @ \ l.ingress ELSE @,
                                !.sgs[g].egress  = IF doneEg THEN @ \ l.egress ELSE @]
                   /\ calls' = calls \o RevokeCalls(g, okIn, okEg)
    /\ todo' = IF Tail(todo) = <<>> THEN [i \in 1..Len(snap.groups) |-> snap.groups[i].id] ELSE Tail(todo)
    /\ pc' = IF Tail(todo) = <<>> THEN SecurityGroupPass2 ELSE "sg_revoke"
    /\ UNCHANGED <<args, conf, vpcQ, snap, prompts, report>>

\* The provider refuses (DependencyViolation) to delete a group that a rule
\* of another group still references.
Referenced(g) ==
    \E h \in DOMAIN aws.sgs : h # g /\ g \in aws.sgs[h].ingress \cup aws.sgs[h].egress

\* Pass 2: ec2.delete_security_group(); a failure is logged and the loop goes on.
DeleteSecurityGroup ==
    /\ pc = "sg_delete"
    /\ \E ok \in Outcomes :
         /\ MutateIf(ok, "delete_security_group", Head(todo), ok /\ ~Referenced(Head(todo)))
         /\ aws' = IF ok /\ ~Referenced(Head(todo))
                   THEN [aws EXCEPT !.sgs = Without(@, Head(todo))]
                   ELSE aws
    /\ todo' = Tail(todo)
    /\ pc' = Loop(todo', "sg_delete", AfterPhase("sg_list"))
    /\ UNCHANGED <<args, conf, vpcQ, snap, prompts, report>>

\* The provider refuses (DependencyViolation) to delete a VPC that still has
\* a subnet, an attached internet gateway, a route table other than the main
\* one, a security group other than the default one, a NAT gateway not yet
\* deleted or an instance not yet terminated.
VpcFree(v) ==
    /\ InVpc(aws.subnets, v) = {}
    /\ InVpc(aws.igws, v) = {}
    /\ \A r \in InVpc(aws.rts, v) : aws.rts[r].main
    /\ \A g \in InVpc(aws.sgs, v) : aws.sgs[g].name = "default"
    /\ SubnetFree(v)

\* What goes with a deleted VPC: its main route table, default security
\* group and network ACLs.
DropVpc(a, v) ==
    [a EXCEPT !.vpcs  = Without(@, v),
              !.rts   = [r \in (DOMAIN @) \ InVpc(@, v) |-> @[r]],
              !.sgs   = [g \in (DOMAIN @) \ InVpc(@, v) |-> @[g]],
              !.nacls = [n \in (DOMAIN @) \ InVpc(@, v) |-> @[n]]]

\* ec2.delete_vpc(); a failure is logged; then the next VPC of `vpcs`.
DeleteVpc ==
    /\ pc = "vpc_delete"
    /\ \E ok \in Outcomes :
         /\ MutateIf(ok, "delete_vpc", Head(vpcQ), ok /\ VpcFree(Head(vpcQ)))
         /\ aws' = IF ok /\ VpcFree(Head(vpcQ)) THEN DropVpc(aws, Head(vpcQ)) ELSE aws
    /\ vpcQ' = Tail(vpcQ)
    /\ pc' = Loop(vpcQ', VpcPhaseOrder[1], AfterForcePhase("vpc_list"))
    /\ UNCHANGED <<args, conf, todo, snap, prompts, report>>

\* ---------------------------------- force_delete_infrastructure(): IAM
\* A listing of names the provider returns in some fixed order.
RECURSIVE SeqOf(_)
SeqOf(S) ==
    IF S = {} THEN <<>>
    ELSE LET x == CHOOSE y \in S : TRUE IN <<x>> \o SeqOf(S \ {x})

\* iam.list_open_id_connect_providers(); a failure skips the providers.
ListOidcProviders ==
    /\ pc = "oidc_list"
    /\ \E ok \in Outcomes :
         /\ Read(ok)
         /\ todo' = IF ok THEN Listed(DOMAIN aws.oidc) ELSE <<>>
         /\ pc' = Loop(todo', "oidc_tags", AfterForcePhase("oidc_list"))
    /\ UNCHANGED <<args, conf, aws, vpcQ, snap, prompts, report>>

\* iam.list_open_id_connect_provider_tags(); the provider is deleted when a
\* Name tag matches the project or the ARN contains 'eks'.  A failure is
\* logged and the next provider follows.
TagsOidcProvider ==
    /\ pc = "oidc_tags"
    /\ \E ok \in Outcomes :
         /\ Read(ok)
         /\ LET arn == Head(todo)
                is_project_oidc == is_project_resource(ids, aws.oidc[arn].name)
            IN  IF ok /\ (is_project_oidc \/ Contains(arn, "eks"))
                THEN pc' = "oidc_delete" /\ todo' = todo
                ELSE pc' = Loop(Tail(todo), "oidc_tags", AfterForcePhase("oidc_list")) /\ todo' = Tail(todo)
    /\ UNCHANGED <<args, conf, aws, vpcQ, snap, prompts, report>>

\* iam.delete_open_id_connect_provider(); a failure is logged.
DeleteOidcProvider ==
    /\ pc = "oidc_delete"
    /\ \E ok \in Outcomes :
         /\ Mutate(ok, "delete_open_id_connect_provider", Head(todo))
         /\ aws' = IF ok THEN [aws EXCEPT !.oidc = Without(@, Head(todo))] ELSE aws
    /\ todo' = Tail(todo)
    /\ pc' = Loop(todo', "oidc_tags", AfterForcePhase("oidc_list"))
    /\ UNCHANGED <<args, conf, vpcQ, snap, prompts, report>>

\* iam.list_roles(); the loop body only acts on roles whose name matches the
\* project or contains 'eks-cluster-role'.  A failure skips the roles.
ListRoles ==
    /\ pc = "role_list"
    /\ \E ok \in Outcomes :
         /\ Read(ok)
         /\ todo' = IF ok
                    THEN SelectIds(DOMAIN aws.roles,
                                   LAMBDA r : is_project_resource(ids, r)
                                              \/ Contains(r, "eks-cluster-role"))
                    ELSE <<>>
         /\ pc' = Loop(todo', "role_attached", AfterForcePhase("role_list"))
    /\ UNCHANGED <<args, conf, aws, vpcQ, snap, prompts, report>>

\* The handler of line 421: the role is given up, the next one follows.
NextRole ==
    /\ todo' = Tail(todo)
    /\ pc' = Loop(todo', "role_attached", AfterForcePhase("role_list"))

\* One step of an inner loop of the role body: a listing call that fills
\* snap, or a call on Head(snap); `body` handles the elements, `after` follows.
RoleListing(at, items, body, after) ==
    /\ pc = at
    /\ \E ok \in Outcomes :
         /\ Read(ok)
         /\ IF ok
            THEN /\ snap' = [items |-> SeqOf(items)]
                 /\ pc' = Loop(snap'.items, body, after)
                 /\ todo' = todo
            ELSE NextRole /\ snap' = snap
    /\ UNCHANGED <<args, conf, aws, vpcQ, prompts, report>>

\* iam.list_attached_role_policies()
ListAttachedRolePolicies ==
    RoleListing("role_attached", aws.roles[Head(todo)].attached, "role_detach", "role_inline")

\* detach_role_policy in a try of its own: a failure is passed over.
DetachRolePolicyPassingOver ==
    /\ pc = "role_detach"
    /\ \E ok \in Outcomes :
         /\ Mutate(ok, "detach_role_policy", Head(todo))
         /\ aws' = IF ok THEN [aws EXCEPT !.roles[Head(todo)].attached = @ \ {Head(snap.items)}]
                   ELSE aws
    /\ snap' = [items |-> Tail(snap.items)]
    /\ pc' = Loop(snap'.items, "role_detach", "role_inline")
    /\ todo' = todo
    /\ UNCHANGED <<args, conf, vpcQ, prompts, report>>

\* iam.detach_role_policy()
DetachRolePolicy ==
    /\ pc = "role_detach"
    /\ \E ok \in Outcomes :
         /\ Mutate(ok, "detach_role_policy", Head(todo))
         /\ IF ok
            THEN /\ aws' = [aws EXCEPT !.roles[Head(todo)].attached = @ \ {Head(snap.items)}]
                 /\ snap' = [items |-> Tail(snap.items)]
                 /\ pc' = Loop(snap'.items, "role_detach", "role_inline")
                 /\ todo' = todo
            ELSE NextRole /\ UNCHANGED <<aws, snap>>
    /\ UNCHANGED <<args, conf, vpcQ, prompts, report>>

\* iam.list_role_policies()
ListRolePolicies ==
    RoleListing("role_inline", aws.roles[Head(todo)].inline, "role_inline_delete", "role_profiles")

\* iam.delete_role_policy()
DeleteRolePolicy ==
    /\ pc = "role_inline_delete"
    /\ \E ok \in Outcomes :
         /\ Mutate(ok, "delete_role_policy", Head(todo))
         /\ IF ok
            THEN /\ aws' = [aws EXCEPT !.roles[Head(todo)].inline = @ \ {Head(snap.items)}]
                 /\ snap' = [items |-> Tail(snap.items)]
                 /\ pc' = Loop(snap'.items, "role_inline_delete", "role_profiles")
                 /\ todo' = todo
            ELSE NextRole /\ UNCHANGED <<aws, snap>>
    /\ UNCHANGED <<args, conf, vpcQ, prompts, report>>

\* iam.list_instance_profiles_for_role()
ListInstanceProfilesForRole ==
    RoleListing("role_profiles", aws.roles[Head(todo)].profiles, "role_profile_remove", "role_delete")

\* iam.remove_role_from_instance_profile()
RemoveRoleFromInstanceProfile ==
    /\ pc = "role_profile_remove"
    /\ \E ok \in Outcomes :
         /\ Mutate(ok, "remove_role_from_instance_profile", Head(todo))
         /\ IF ok
            THEN /\ aws' = [aws EXCEPT !.roles[Head(todo)].profiles = @ \ {Head(snap.items)}]
                 /\ pc' = "role_profile_delete"
                 /\ UNCHANGED <<todo, snap>>
            ELSE NextRole /\ UNCHANGED <<aws, snap>>
    /\ UNCHANGED <<args, conf, vpcQ, prompts, report>>

\* iam.delete_instance_profile(), in its own try: a failure is passed over.
DeleteInstanceProfile ==
    /\ pc = "role_profile_delete"
    /\ \E ok \in Outcomes :
         /\ Mutate(ok, "delete_instance_profile", Head(snap.items))
         /\ aws' = IF ok THEN [aws EXCEPT !.profiles = @ \ {Head(snap.items)}] ELSE aws
    /\ snap' = [items |-> Tail(snap.items)]
    /\ pc' = Loop(snap'.items, "role_profile_remove", "role_delete")
    /\ UNCHANGED <<args, conf, vpcQ, todo, prompts, report>>

\* iam.delete_role(); a failure is logged; the next role follows.
DeleteRole ==
    /\ pc = "role_delete"
    /\ \E ok \in Outcomes :
         /\ Mutate(ok, "delete_role", Head(todo))
         /\ aws' = IF ok THEN [aws EXCEPT !.roles = Without(@, Head(todo))] ELSE aws
    /\ NextRole
    /\ UNCHANGED <<args, conf, vpcQ, snap, prompts, report>>

\* iam.list_policies(Scope='Local'); the loop body only acts on policies whose
\* name matches the project or contains 'AWSLoadBalancerController'.
ListPolicies ==
    /\ pc = "policy_list"
    /\ \E ok \in Outcomes :
         /\ Read(ok)
         /\ todo' = IF ok
                    THEN SelectIds(DOMAIN aws.policies,
                                   LAMBDA p : is_project_resource(ids, p)
                                              \/ Contains(p, "AWSLoadBalancerController"))
                    ELSE <<>>
         /\ pc' = Loop(todo', "policy_versions", AfterForcePhase("policy_list"))
    /\ UNCHANGED <<args, conf, aws, vpcQ, snap, prompts, report>>

\* The handler of line 442: the policy is given up, the next one follows.
NextPolicy ==
    /\ todo' = Tail(todo)
    /\ pc' = Loop(todo', "policy_versions", AfterForcePhase("policy_list"))

\* iam.list_policy_versions(); the loop acts on the non-default versions.
ListPolicyVersions ==
    /\ pc = "policy_versions"
    /\ \E ok \in Outcomes :
         /\ Read(ok)
         /\ IF ok
            THEN /\ snap' = [items |-> SeqOf(aws.policies[Head(todo)].versions)]
                 /\ pc' = Loop(snap'.items, "policy_version_delete", "policy_delete")
                 /\ todo' = todo
            ELSE NextPolicy /\ snap' = snap
    /\ UNCHANGED <<args, conf, aws, vpcQ, prompts, report>>

\* iam.delete_policy_version()
DeletePolicyVersion ==
    /\ pc = "policy_version_delete"
    /\ \E ok \in Outcomes :
         /\ Mutate(ok, "delete_policy_version", Head(todo))
         /\ IF ok
            THEN /\ aws' = [aws EXCEPT !.policies[Head(todo)].versions = @ \ {Head(snap.items)}]
                 /\ snap' = [items |-> Tail(snap.items)]
                 /\ pc' = Loop(snap'.items, "policy_version_delete", "policy_delete")
                 /\ todo' = todo
            ELSE NextPolicy /\ UNCHANGED <<aws, snap>>
    /\ UNCHANGED <<args, conf, vpcQ, prompts, report>>

\* iam.delete_policy(); a failure is logged; the next policy follows.
DeletePolicy ==
    /\ pc = "policy_delete"
    /\ \E ok \in Outcomes :
         /\ Mutate(ok, "delete_policy", Head(todo))
         /\ aws' = IF ok THEN [aws EXCEPT !.policies = Without(@, Head(todo))] ELSE aws
    /\ NextPolicy
    /\ UNCHANGED <<args, conf, vpcQ, snap, prompts, report>>

\* ------------------------------------------------------- cleanup_kms()
\* kms list_aliases paginator; the loop body only acts on matching aliases.
\* snap keeps the listed aliases with their TargetKeyId (None when absent).
ListAliases ==
    /\ pc = "kms_list"
    /\ \E ok \in Outcomes :
         /\ Read(ok)
         /\ todo' = IF ok
                    THEN SelectIds(DOMAIN aws.aliases, LAMBDA a : is_project_resource(ids, a))
                    ELSE <<>>
         /\ snap' = IF ok THEN [aliases |-> aws.aliases] ELSE snap
         /\ pc' = Loop(todo', "kms_alias_delete", AfterForcePhase("kms_list"))
    /\ UNCHANGED <<args, conf, aws, vpcQ, prompts, report>>

NextAlias ==
    /\ todo' = Tail(todo)
    /\ pc' = Loop(todo', "kms_alias_delete", AfterForcePhase("kms_list"))

\* kms.delete_alias(), in its own try; then the target key, if the alias has one.
DeleteAlias ==
    /\ pc = "kms_alias_delete"
    /\ \E ok \in Outcomes :
         /\ Mutate(ok, "delete_alias", Head(todo))
         /\ aws' = IF ok THEN [aws EXCEPT !.aliases = Without(@, Head(todo))] ELSE aws
    /\ IF snap.aliases[Head(todo)] # None
       THEN pc' = "kms_describe" /\ todo' = todo
       ELSE NextAlias
    /\ UNCHANGED <<args, conf, vpcQ, snap, prompts, report>>

\* describe_key followed by the scheduling whatever the key's state is.
DescribeKeyAnyState ==
    /\ pc = "kms_describe"
    /\ \E ok \in Outcomes :
         /\ Read(ok)
         /\ IF ok THEN pc' = "kms_schedule" /\ todo' = todo ELSE NextAlias
    /\ UNCHANGED <<args, conf, aws, vpcQ, snap, prompts, report>>

\* kms.describe_key(); the key is scheduled for deletion unless its state is
\* PendingDeletion or Unavailable.  A failure is logged.
DescribeKey ==
    /\ pc = "kms_describe"
    /\ \E ok \in Outcomes :
         /\ Read(ok)
         /\ IF ok /\ aws.keys[snap.aliases[Head(todo)]] \notin {"PendingDeletion", "Unavailable"}
            THEN pc' = "kms_schedule" /\ todo' = todo
            ELSE NextAlias
    /\ UNCHANGED <<args, conf, aws, vpcQ, snap, prompts, report>>

\* kms.schedule_key_deletion(PendingWindowInDays=7); a failure is logged.
ScheduleKeyDeletion ==
    /\ pc = "kms_schedule"
    /\ \E ok \in Outcomes :
         /\ Mutate(ok, "schedule_key_deletion", snap.aliases[Head(todo)])
         /\ aws' = IF ok
                   THEN [aws EXCEPT !.keys[snap.aliases[Head(todo)]] = "PendingDeletion",
                                    !.windows = (snap.aliases[Head(todo)] :> PendingWindowInDays) @@ @]
                   ELSE aws
    /\ NextAlias
    /\ UNCHANGED <<args, conf, vpcQ, snap, prompts, report>>

\* ------------------------------------------------ cleanup_state_store()
\* cleanup_state_store returning at once when no state bucket is known.
EnterStateStoreSkippingUnset ==
    /\ pc = "s3_enter"
    /\ Enter("cleanup_state_store")
    /\ pc' = IF args.state_bucket # None THEN "s3_head" ELSE "v_enter"
    /\ UNCHANGED <<args, conf, aws, vpcQ, todo, snap, prompts, report, faults>>

\* Line 182: the bucket part runs only with a state bucket.
EnterStateStore ==
    /\ pc = "s3_enter"
    /\ Enter("cleanup_state_store")
    /\ pc' = IF args.state_bucket # None THEN "s3_head" ELSE "ddb_delete"
    /\ UNCHANGED <<args, conf, aws, vpcQ, todo, snap, prompts, report, faults>>

\* s3 head_bucket(): a missing bucket answers 404, which is logged as
\* "already deleted"; any other failure is logged too.  Both go on to the table.
HeadBucket ==
    /\ pc = "s3_head"
    /\ \E ok \in Outcomes :
         /\ Read(ok)
         /\ pc' = IF ok /\ args.state_bucket \in DOMAIN aws.buckets
                  THEN "s3_versions" ELSE "ddb_delete"
    /\ UNCHANGED <<args, conf, aws, vpcQ, todo, snap, prompts, report>>

\* bucket.object_versions.delete()
DeleteObjectVersions ==
    /\ pc = "s3_versions"
    /\ \E ok \in Outcomes :
         /\ Mutate(ok, "delete_object_versions", args.state_bucket)
         /\ aws' = IF ok THEN [aws EXCEPT !.buckets[args.state_bucket] = FALSE] ELSE aws
         /\ pc' = IF ok THEN "s3_bucket_delete" ELSE "ddb_delete"
    /\ UNCHANGED <<args, conf, vpcQ, todo, snap, prompts, report>>

\* bucket.delete()
DeleteBucket ==
    /\ pc = "s3_bucket_delete"
    /\ \E ok \in Outcomes :
         /\ Mutate(ok, "delete_bucket", args.state_bucket)
         /\ aws' = IF ok THEN [aws EXCEPT !.buckets = Without(@, args.state_bucket)] ELSE aws
    /\ pc' = "ddb_delete"
    /\ UNCHANGED <<args, conf, vpcQ, todo, snap, prompts, report>>

\* dynamodb.delete_table(): a missing table raises ResourceNotFoundException,
\* logged as "already deleted"; any other failure is logged too.
DeleteTable ==
    /\ pc = "ddb_delete"
    /\ \E ok \in Outcomes :
         /\ MutateIf(ok, "delete_table", LockTable, ok /\ LockTable \in DOMAIN aws.tables)
         /\ IF ok /\ LockTable \in DOMAIN aws.tables
            THEN /\ aws' = [aws EXCEPT !.tables[LockTable] = "DELETING"]
                 /\ pc' = "ddb_wait"
            ELSE /\ aws' = aws
                 /\ pc' = "v_enter"
    /\ UNCHANGED <<args, conf, vpcQ, todo, snap, prompts, report>>

\* dynamodb.get_waiter('table_not_exists').wait()
WaitTableNotExists ==
    /\ pc = "ddb_wait"
    /\ \E ok \in Outcomes :
         /\ Read(ok)
         /\ aws' = IF ok THEN [aws EXCEPT !.tables = Without(@, LockTable)] ELSE aws
    /\ pc' = "v_enter"
    /\ UNCHANGED <<args, conf, vpcQ, todo, snap, prompts, report>>

\* ----------------------------------------------------- verify_cleanup()
\* One line of status_report: its category and what its marker says.
Line(category, status, count) == [category |-> category, status |-> status, count |-> count]

\* A check_status that takes the deletion engine's word: every category Deleted.
check_status_trusting(resource_name, count, is_deleting) ==
    [category |-> resource_name, status |-> "Deleted", count |-> 0]

\* verify_cleanup.check_status
check_status(resource_name, count, is_deleting) ==
    IF count = 0 THEN Line(resource_name, "Deleted", 0)
    ELSE IF is_deleting THEN Line(resource_name, "Deleting", count)
    ELSE Line(resource_name, "ActionRequired", count)

CheckFailed(category) == Line(category, "CheckFailed", 0)

\* main() line 647: cleaner.verify_cleanup()
EnterVerify ==
    /\ pc = "v_enter"
    /\ Enter("verify_cleanup")
    /\ pc' = "v_clusters"
    /\ UNCHANGED <<args, conf, aws, vpcQ, todo, snap, prompts, report, faults>>

\* 1. eks.list_clusters(), in a try: a failure reports Check Failed.
VerifyClusters ==
    /\ pc = "v_clusters"
    /\ \E ok \in Outcomes :
         /\ Read(ok)
         /\ report' = Append(report,
                IF ok
                THEN check_status("EKS Clusters",
                        Cardinality({c \in DOMAIN aws.clusters : is_project_resource(ids, c)}),
                        FALSE)
                ELSE CheckFailed("EKS Clusters"))
    /\ pc' = "v_clb"
    /\ UNCHANGED <<args, conf, aws, vpcQ, todo, snap, prompts>>

\* A listing of verify_cleanup that is not inside any try: the result is
\* kept in snap, a failure leaves main().
VerifyListing(at, result, after) ==
    /\ pc = at
    /\ UNCHANGED vpcQ
    /\ \E ok \in Outcomes :
         /\ Read(ok)
         /\ IF ok
            THEN /\ snap' = [count |-> result]
                 /\ pc' = after
                 /\ UNCHANGED <<args, conf, aws, todo, prompts, report>>
            ELSE Crash

\* A listing of verify_cleanup that is not inside any try and whose result
\* gives a line of the report.
VerifyLine(at, line, after) ==
    /\ pc = at
    /\ UNCHANGED vpcQ
    /\ \E ok \in Outcomes :
         /\ Read(ok)
         /\ IF ok
            THEN /\ report' = Append(report, line)
                 /\ pc' = after
                 /\ UNCHANGED <<args, conf, aws, todo, snap, prompts>>
            ELSE Crash /\ UNCHANGED snap

\* 2. elb.describe_load_balancers(): every classic LB of the account.
VerifyClassicLBs ==
    VerifyListing("v_clb", Cardinality(DOMAIN aws.clbs), "v_alb")

\* 2. elbv2.describe_load_balancers(): every V2 LB of the account.
VerifyV2LBs ==
    VerifyLine("v_alb",
               check_status("Load Balancers", snap.count + Cardinality(DOMAIN aws.albs), FALSE),
               "v_nat_active")

NatsIn(states) == {n \in DOMAIN aws.nats : aws.nats[n].state \in states}

\* 3. describe_nat_gateways(state in available, pending): nats_active
VerifyNatActive ==
    VerifyListing("v_nat_active", Cardinality(NatsIn({"available", "pending"})), "v_nat_deleting")

\* 3. describe_nat_gateways(state = deleting): nats_deleting, and the line.
VerifyNatDeleting ==
    VerifyLine("v_nat_deleting",
               IF snap.count > 0 THEN Line("NAT Gateways", "ActionRequired", snap.count)
               ELSE IF NatsIn({"deleting"}) # {}
               THEN Line("NAT Gateways", "Deleting", Cardinality(NatsIn({"deleting"})))
               ELSE Line("NAT Gateways", "Deleted", 0),
               "v_vpcs")

CustomVpcs == {v \in DOMAIN aws.vpcs : ~aws.vpcs[v].isDefault}

Among(f, V) == {x \in DOMAIN f : f[x].vpc \in V}

\* 4. describe_vpcs(isDefault = false).  Without any VPC, steps 5 to 7 add
\*    their "Deleted" lines without a call.
VerifyVpcs ==
    /\ pc = "v_vpcs"
    /\ UNCHANGED vpcQ
    /\ \E ok \in Outcomes :
         /\ Read(ok)
         /\ IF ok
            THEN /\ snap' = [vpcs |-> CustomVpcs]
                 /\ report' = Append(report, check_status("Custom VPCs", Cardinality(CustomVpcs), FALSE))
                                \o (IF CustomVpcs = {}
                                    THEN << Line("Subnets", "Deleted", 0),
                                            Line("Security Groups", "Deleted", 0),
                                            Line("Network ACLs", "Deleted", 0) >>
                                    ELSE <<>>)
                 /\ pc' = IF CustomVpcs = {} THEN "v_roles" ELSE "v_subnets"
                 /\ UNCHANGED <<args, conf, aws, todo, prompts>>
            ELSE Crash /\ UNCHANGED report

\* 5. describe_subnets(vpc-id in vpc_ids)
VerifySubnets ==
    VerifyLine("v_subnets",
               check_status("Subnets", Cardinality(Among(aws.subnets, snap.vpcs)), FALSE),
               "v_sgs")

\* 6. describe_security_groups(vpc-id in vpc_ids), groups not named 'default'
VerifySecurityGroups ==
    VerifyLine("v_sgs",
               check_status("Security Groups",
                    Cardinality({g \in Among(aws.sgs, snap.vpcs) : aws.sgs[g].name # "default"}),
                    FALSE),
               "v_nacls")

\* 7. describe_network_acls(vpc-id in vpc_ids), ACLs that are not default
VerifyNetworkAcls ==
    VerifyLine("v_nacls",
               check_status("Network ACLs",
                    Cardinality({n \in Among(aws.nacls, snap.vpcs) : ~aws.nacls[n].isDefault}),
                    FALSE),
               "v_roles")

\* 8. iam.list_roles(), in a try shared with list_policies: a failure
\*    reports "IAM Checks: Failed" and ends the checks.
VerifyRoles ==
    /\ pc = "v_roles"
    /\ \E ok \in Outcomes :
         /\ Read(ok)
         /\ report' = Append(report,
                IF ok
                THEN check_status("IAM Roles",
                        Cardinality({r \in DOMAIN aws.roles : is_project_resource(ids, r)}),
                        FALSE)
                ELSE CheckFailed("IAM Checks"))
         /\ pc' = IF ok THEN "v_policies" ELSE "done"
    /\ UNCHANGED <<args, conf, aws, vpcQ, todo, snap, prompts>>

\* 8. iam.list_policies(Scope='Local'); then the report is printed and
\*    main() logs "Cleanup sequence complete."
VerifyPolicies ==
    /\ pc = "v_policies"
    /\ \E ok \in Outcomes :
         /\ Read(ok)
         /\ report' = Append(report,
                IF ok
                THEN check_status("IAM Policies",
                        Cardinality({p \in DOMAIN aws.policies : is_project_resource(ids, p)}),
                        FALSE)
                ELSE CheckFailed("IAM Checks"))
    /\ pc' = "done"
    /\ UNCHANGED <<args, conf, aws, vpcQ, todo, snap, prompts>>

\* ------------------------------------------------------------- claims
Last(q) == q[Len(q)]

Events(kind) == {i \in 1..Len(calls) : calls[i].kind = kind}

Ops(op) == {i \in 1..Len(calls) : calls[i].op = op}

Entered(method) == \E i \in Events("enter") : calls[i].op = method

Asked(prompt) == {i \in 1..Len(prompts) : prompts[i].prompt = prompt}

SaidYes(prompt) == \E i \in Asked(prompt) : Lower(prompts[i].answer) = "yes"

SaidOther(prompt) == \E i \in Asked(prompt) : Lower(prompts[i].answer) # "yes"

Confirmed == SaidYes("confirm")

NothingMutated == Events("mutate") = {} /\ Events("tool") = {}

\* C1: no mutating provider call and no terraform run is issued unless the
\* first prompt was answered 'yes' (in any letter case); after any other
\* answer the run is cancelled and has issued none.
C1_NoMutationUnlessConfirmed ==
    /\ ~NothingMutated => Confirmed
    /\ SaidOther("confirm") => pc = "cancelled" /\ NothingMutated

C1_Witness ==
    /\ pc = "cancelled"
    /\ SaidOther("confirm")
    /\ DOMAIN account.vpcs # {}

\* C2 (as claimed): every confirmed run that has ended entered state-store
\* cleanup and, after it, verification.
C2_CleanupAndVerifyAlwaysRun ==
    (Confirmed /\ pc \in {"done", "crashed"}) =>
        \E i, j \in Events("enter") :
            /\ i < j
            /\ calls[i].op = "cleanup_state_store"
            /\ calls[j].op = "verify_cleanup"

\* The matching log groups of the account the run started on.
ProjectLogGroups ==
    {g \in account.logGroups : StartsWith(g, "/aws/eks/") /\ is_project_resource(ids, g)}

\* C3 (as claimed): during forced deletion a provider delete call that fails
\* never ends the run, and after a failed log-group delete the loop still
\* issues the delete of every other matching log group.
C3_DeleteFailureNeverAborts ==
    /\ ~(pc = "crashed" /\ Last(calls).kind = "mutate" /\ ~Last(calls).ok)
    /\ (pc # "logs_delete" /\ \E i \in Ops("delete_log_group") : ~calls[i].ok) =>
           \A g \in ProjectLogGroups : \E i \in Ops("delete_log_group") : calls[i].id = g

\* C4: when a delete-subnet call is issued for a VPC, no NAT gateway of that
\* VPC is pending, available or deleting, and (unless the VPC never had a
\* NAT gateway) a poll of that VPC has come back empty before.
C4_NoSubnetDeleteBeforeNatGone ==
    /\ pc = "subnet_delete" =>
           \A n \in InVpc(aws.nats, CurVpc) :
               aws.nats[n].state \notin {"pending", "available", "deleting"}
    /\ \A i \in Ops("delete_subnet") :
           \/ InVpc(account.nats, calls[i].vpc) = {}
           \/ \E j \in Ops("poll_nat_gateways") :
                  /\ j < i
                  /\ calls[j].vpc = calls[i].vpc
                  /\ calls[j].id = "none"
                  /\ calls[j].ok

C4_Witness ==
    \E i, j \in Ops("poll_nat_gateways"), k \in Ops("delete_subnet") :
        /\ i < j /\ j < k
        /\ calls[i].id = "some" /\ calls[j].id = "none"
        /\ calls[i].vpc = calls[k].vpc /\ calls[j].vpc = calls[k].vpc

RevokeOps == {"revoke_security_group_ingress", "revoke_security_group_egress"}

\* Group g exists and has a rule that references another existing group.
HoldsReference(g) ==
    /\ g \in DOMAIN aws.sgs
    /\ \E r \in aws.sgs[g].ingress \cup aws.sgs[g].egress : r # g /\ r \in DOMAIN aws.sgs

\* C5 (as claimed): at the time of any security-group delete call, no
\* non-default group of the VPC holds a rule referencing another group.
C5_NoReferenceAtDelete ==
    pc = "sg_delete" =>
        \A g \in InVpc(aws.sgs, CurVpc) :
            aws.sgs[g].name # "default" => ~HoldsReference(g)

\* C5 (amended): every revoke call of a VPC precedes every security-group
\* delete call of that VPC; when the deletes run, every listed non-default
\* group that had rules has had a revoke call, and a group still holding a
\* rule that references another group is one whose revoke call failed.
C5_RevokeAttemptedBeforeDelete ==
    /\ \A v \in DOMAIN account.vpcs :
           \A i \in {d \in Ops("delete_security_group") : calls[d].vpc = v},
              j \in {r \in 1..Len(calls) : calls[r].op \in RevokeOps /\ calls[r].vpc = v} :
               j < i
    /\ pc = "sg_delete" =>
           \A k \in 1..Len(snap.groups) :
               LET g == snap.groups[k].id
                   revokes == {i \in 1..Len(calls) :
                                 /\ calls[i].op \in RevokeOps
                                 /\ calls[i].id = g
                                 /\ calls[i].vpc = CurVpc}
               IN  /\ snap.groups[k].ingress \cup snap.groups[k].egress # {} => revokes # {}
                   /\ HoldsReference(g) => \E i \in revokes : ~calls[i].ok

C5_Witness ==
    /\ pc = "sg_delete"
    /\ \E k, l \in 1..Len(snap.groups) :
           /\ snap.groups[l].id \in snap.groups[k].ingress
           /\ snap.groups[k].id \in snap.groups[l].ingress
           /\ k # l
           /\ ~HoldsReference(snap.groups[k].id) /\ ~HoldsReference(snap.groups[l].id)
           /\ snap.groups[k].id \in DOMAIN aws.sgs /\ snap.groups[l].id \in DOMAIN aws.sgs

\* C6 (as claimed): when the VPC delete call is issued, the VPC has no
\* subnet, no non-main route table, no non-default security group, no NAT
\* gateway and no internet gateway left.
C6_VpcDeleteOnlyWhenEmpty ==
    pc = "vpc_delete" =>
        /\ InVpc(aws.subnets, CurVpc) = {}
        /\ \A r \in InVpc(aws.rts, CurVpc) : aws.rts[r].main
        /\ \A g \in InVpc(aws.sgs, CurVpc) : aws.sgs[g].name = "default"
        /\ \A n \in InVpc(aws.nats, CurVpc) : aws.nats[n].state = "deleted"
        /\ InVpc(aws.igws, CurVpc) = {}

FailedDelete(op, x) == \E i \in Ops(op) : calls[i].id = x /\ ~calls[i].ok

\* C6 (amended): when the VPC delete call is issued, the VPC has no NAT
\* gateway that is pending, available or deleting and no attached internet
\* gateway, and each subnet, non-main route table and non-default security
\* group it still has is one whose own delete call was issued and failed.
C6_VpcDeleteAfterAttempts ==
    pc = "vpc_delete" =>
        /\ \A n \in InVpc(aws.nats, CurVpc) :
               aws.nats[n].state \notin {"pending", "available", "deleting"}
        /\ InVpc(aws.igws, CurVpc) = {}
        /\ \A x \in InVpc(aws.subnets, CurVpc) : FailedDelete("delete_subnet", x)
        /\ \A r \in InVpc(aws.rts, CurVpc) :
               ~aws.rts[r].main => FailedDelete("delete_route_table", r)
        /\ \A g \in InVpc(aws.sgs, CurVpc) :
               aws.sgs[g].name # "default" => FailedDelete("delete_security_group", g)

C6_Witness ==
    /\ pc = "vpc_delete"
    /\ InVpc(account.subnets, CurVpc) # {}
    /\ InVpc(account.nats, CurVpc) # {}
    /\ InVpc(aws.subnets, CurVpc) \cup InVpc(aws.igws, CurVpc) = {}
    /\ \E i \in Ops("delete_subnet") : calls[i].vpc = CurVpc /\ calls[i].ok

\* The place of each in-boundary call in the order of spec 4.3 phase 3.
BoundaryRank ==
    [ terminate_instances           |-> 0,
      delete_nat_gateway            |-> 1,
      poll_nat_gateways             |-> 2,
      release_address               |-> 3,
      detach_internet_gateway       |-> 4,
      delete_internet_gateway       |-> 4,
      delete_subnet                 |-> 5,
      delete_route_table            |-> 6,
      revoke_security_group_ingress |-> 7,
      revoke_security_group_egress  |-> 7,
      delete_security_group         |-> 8,
      delete_vpc                    |-> 9 ]

\* The in-boundary calls issued inside VPC v, oldest first.
BoundaryCalls(v) ==
    SelectSeq(calls, LAMBDA c : c.op \in DOMAIN BoundaryRank /\ c.vpc = v)

\* Each element of q is ranked at least as high as every element before it.
Ascending(q, rank) == \A k \in 1..(Len(q) - 1) : rank[q[k].op] <= rank[q[k + 1].op]

\* The mutating calls issued inside VPC v, in order, as <<operation, id>>.
RECURSIVE MutationsIn(_, _)
MutationsIn(v, n) ==
    IF n = 0 THEN <<>>
    ELSE IF calls[n].kind = "mutate" /\ calls[n].vpc = v
         THEN Append(MutationsIn(v, n - 1), <<calls[n].op, calls[n].id>>)
         ELSE MutationsIn(v, n - 1)

ScenarioRun ==
    /\ account = ScenarioAccount
    /\ ids = {"omnishop"}
    /\ Entered("force_delete_infrastructure")
    /\ faults = 0
    /\ pc = "done"

\* C7: inside one VPC the calls follow the order NAT delete, poll, EIP
\* release, IGW detach/delete, subnets, route tables, revoke, group deletes,
\* VPC delete, and each gateway is detached before it is deleted; on the
\* fixture of spec 8 with every call succeeding the forced run issues
\* exactly that sequence and every line of the final report reads Deleted.
C7_BoundaryOrderAndScenario ==
    /\ \A v \in DOMAIN account.vpcs : Ascending(BoundaryCalls(v), BoundaryRank)
    /\ \A i \in Ops("delete_internet_gateway") :
           \E j \in Ops("detach_internet_gateway") :
               j < i /\ calls[j].id = calls[i].id /\ calls[j].ok
    /\ ScenarioRun =>
           /\ MutationsIn("vpc-1", Len(calls)) =
                  << <<"delete_nat_gateway", "nat-1">>,
                     <<"delete_subnet", "subnet-1">>,
                     <<"revoke_security_group_ingress", "sg-a">>,
                     <<"revoke_security_group_ingress", "sg-b">>,
                     <<"revoke_security_group_egress", "sg-b">>,
                     <<"delete_security_group", "sg-a">>,
                     <<"delete_security_group", "sg-b">>,
                     <<"delete_vpc", "vpc-1">> >>
           /\ \E i, j \in Ops("poll_nat_gateways") :
                  /\ Ops("delete_nat_gateway") = {i - 1}
                  /\ calls[j].id = "none"
                  /\ Ops("delete_subnet") = {j + 1}
           /\ report # <<>>
           /\ \A k \in 1..Len(report) : report[k].status = "Deleted"

C7_Witness ==
    /\ ScenarioRun
    /\ \E i \in Ops("delete_vpc") : calls[i].id = "vpc-1" /\ calls[i].ok
    /\ \E k \in 1..Len(report) : report[k].category = "Custom VPCs"

\* The place of each forced-deletion call in the global order of spec 4.3.
ForceRank ==
    [ delete_cluster                    |-> 1,
      delete_log_group                  |-> 2,
      delete_open_id_connect_provider   |-> 4,
      detach_role_policy                |-> 5,
      delete_role_policy                |-> 5,
      remove_role_from_instance_profile |-> 5,
      delete_instance_profile           |-> 5,
      delete_role                       |-> 5,
      delete_policy_version             |-> 6,
      delete_policy                     |-> 6,
      delete_alias                      |-> 7,
      schedule_key_deletion             |-> 7 ] @@
    [op \in DOMAIN BoundaryRank |-> 3]

\* The forced-deletion calls, oldest first.
ForceCalls == SelectSeq(calls, LAMBDA c : c.op \in DOMAIN ForceRank)

IamOps ==
    {op \in DOMAIN ForceRank : ForceRank[op] \in {4, 5, 6}}

\* The VPCs of the starting account that the tag filter of the run matches.
MatchedVpcs ==
    {v \in DOMAIN account.vpcs : TagNameFilter(ids, account.vpcs[v].name)}

\* Where the provider's listings put each VPC.
VpcPosition ==
    [v \in {"vpc-1", "vpc-2", "vpc-9"} |->
        CHOOSE k \in 1..Len(ListingOrder) : ListingOrder[k] = v]

\* C8: forced-deletion calls come in the order clusters, log groups, VPCs
\* (one VPC after another), OIDC providers, roles, policies, KMS; and no
\* OIDC or IAM delete call is issued before the VPC delete call of every
\* matched VPC has been issued.
C8_GlobalPhaseOrder ==
    /\ Ascending(ForceCalls, ForceRank)
    /\ LET inVpcs == SelectSeq(ForceCalls, LAMBDA c : c.vpc # None)
       IN  \A k \in 1..(Len(inVpcs) - 1) :
               VpcPosition[inVpcs[k].vpc] <= VpcPosition[inVpcs[k + 1].vpc]
    /\ LET iam == {i \in 1..Len(calls) : calls[i].op \in IamOps}
           vpcDeletes == Ops("delete_vpc")
       IN  iam # {} =>
               \A v \in MatchedVpcs :
                   \E j \in vpcDeletes :
                       /\ calls[j].id = v
                       /\ \A i \in iam : j < i

C8_Witness ==
    /\ \E i \in Ops("delete_role") :
           /\ Cardinality(MatchedVpcs) >= 2
           /\ Ops("delete_cluster") # {}
           /\ Ops("delete_log_group") # {}
           /\ Ops("delete_open_id_connect_provider") # {}
    /\ Ops("schedule_key_deletion") # {}

LoadBalancerSteps ==
    {"lb_enter", "clb_list", "clb_tags", "clb_delete", "alb_list", "alb_tags", "alb_delete"}

\* C9: in a confirmed run without --force whose state bucket is unset after
\* discovery, terraform is never invoked, the second confirmation is asked
\* before the run goes on to state-store cleanup, and forced deletion is
\* entered exactly when that second answer is 'yes' (in any letter case).
C9_NoStateNoForce ==
    (~args.force /\ args.state_bucket = None /\ Confirmed) =>
        /\ Events("tool") = {}
        /\ pc \notin LoadBalancerSteps \cup {"tf_enter", "force_prompt"} =>
               /\ Cardinality(Asked("force_confirm")) = 1
               /\ \A i \in Asked("confirm"), j \in Asked("force_confirm") : i < j
        /\ Entered("force_delete_infrastructure") => SaidYes("force_confirm")
        /\ SaidYes("force_confirm") =>
               pc = "force_enter" \/ Entered("force_delete_infrastructure")
        /\ SaidOther("force_confirm") => Events("mutate") \subseteq
               Ops("delete_load_balancer") \cup Ops("delete_load_balancer_v2")
               \cup Ops("delete_object_versions") \cup Ops("delete_bucket")
               \cup Ops("delete_table")

C9_Witness ==
    /\ Confirmed /\ ~args.force /\ args.state_bucket = None
    /\ SaidYes("force_confirm")
    /\ Entered("run_terraform_destroy")
    /\ Ops("delete_vpc") # {}

\* C10: in a confirmed run with --force, terraform init/destroy is never
\* invoked whether or not a state bucket is known, no second confirmation
\* is asked, and forced deletion is entered right after load-balancer
\* cleanup.
C10_ForceSkipsTerraform ==
    (args.force /\ Confirmed) =>
        /\ Events("tool") = {}
        /\ ~Entered("run_terraform_destroy")
        /\ Asked("force_confirm") = {}
        /\ pc \notin LoadBalancerSteps =>
               pc = "force_enter" \/ Entered("force_delete_infrastructure")

C10_Witness ==
    /\ Confirmed /\ args.force
    /\ args.state_bucket # None
    /\ Entered("force_delete_infrastructure")
    /\ pc = "done"

\* The calls that belong to the destroy proper: terraform runs, forced
\* deletion calls, and the entry of either method.
DestroyEvents ==
    {i \in 1..Len(calls) :
        \/ calls[i].kind = "tool"
        \/ calls[i].op \in DOMAIN ForceRank
        \/ calls[i].op \in {"run_terraform_destroy", "force_delete_infrastructure"}}

LoadBalancerEvents ==
    {i \in 1..Len(calls) :
        calls[i].op \in {"cleanup_load_balancers", "delete_load_balancer",
                         "delete_load_balancer_v2"}}

\* C11: in every confirmed run, with or without --force, cleanup_load_balancers
\* has been entered and has returned before terraform is invoked and before
\* any forced-deletion call: while the run is inside load-balancer cleanup no
\* such call exists, and every load-balancer call precedes every such call.
C11_LoadBalancersFirst ==
    /\ pc \in LoadBalancerSteps \cup {"discover", "confirm", "cancelled"} =>
           DestroyEvents = {}
    /\ DestroyEvents # {} =>
           /\ Entered("cleanup_load_balancers")
           /\ \A i \in LoadBalancerEvents, j \in DestroyEvents : i < j

C11_Witness ==
    /\ \E i \in Ops("delete_load_balancer"), j \in Ops("delete_load_balancer_v2") :
           /\ i < j
           /\ \E k \in Ops("terraform_init") : j < k
    /\ Ops("delete_cluster") = {}

\* C12: a terraform run that exits non-zero never ends the orchestrator: the
\* run goes on to the step after run_terraform_destroy; terraform destroy is
\* run only after a terraform init that exited successfully.
C12_TerraformFailureContained ==
    /\ pc = "crashed" => Last(calls).kind # "tool"
    /\ (\E i \in Events("tool") : ~calls[i].ok) =>
           \/ pc \in {"force_prompt", "s3_enter"}
           \/ Entered("cleanup_state_store")
    /\ \A j \in Ops("terraform_destroy") :
           \E i \in Ops("terraform_init") : i < j /\ calls[i].ok
    /\ (\E i \in Ops("terraform_init") : ~calls[i].ok) => Ops("terraform_destroy") = {}

C12_Witness ==
    /\ \E i \in Ops("terraform_init"), j \in Ops("terraform_destroy") :
           calls[i].ok /\ ~calls[j].ok
    /\ Entered("verify_cleanup")

\* Per category of the report, how many resources the listing of
\* verify_cleanup returns that are not in an in-progress deletion state.
RemainingNow ==
    ("EKS Clusters" :> Cardinality({c \in DOMAIN aws.clusters :
                           is_project_resource(ids, c) /\ aws.clusters[c] # "DELETING"}))
    @@ ("Load Balancers" :> Cardinality(DOMAIN aws.clbs) + Cardinality(DOMAIN aws.albs))
    @@ ("NAT Gateways" :> Cardinality({n \in DOMAIN aws.nats :
                              aws.nats[n].state \in {"available", "pending"}}))
    @@ ("Custom VPCs" :> Cardinality(CustomVpcs))
    @@ ("Subnets" :> Cardinality(Among(aws.subnets, CustomVpcs)))
    @@ ("Security Groups" :> Cardinality({g \in Among(aws.sgs, CustomVpcs) :
                                 aws.sgs[g].name # "default"}))
    @@ ("Network ACLs" :> Cardinality({n \in Among(aws.nacls, CustomVpcs) :
                              ~aws.nacls[n].isDefault}))
    @@ ("IAM Roles" :> Cardinality({r \in DOMAIN aws.roles : is_project_resource(ids, r)}))
    @@ ("IAM Policies" :> Cardinality({p \in DOMAIN aws.policies : is_project_resource(ids, p)}))

ReportLines(status) == {k \in 1..Len(report) : report[k].status = status}

\* C13: a category whose listing succeeded and returned resources that are
\* not being deleted is reported ActionRequired, never Deleted, whatever the
\* deletion calls before it returned.  (Nothing but the progress of NAT
\* gateways changes the account while verify_cleanup runs, and that progress
\* leaves the set of pending/available gateways as it is.)
C13_RemainingIsActionRequired ==
    \A k \in 1..Len(report) :
        (/\ report[k].category \in DOMAIN RemainingNow
         /\ report[k].status # "CheckFailed"
         /\ RemainingNow[report[k].category] > 0)
            => report[k].status = "ActionRequired"

C13_Witness ==
    /\ pc = "done"
    /\ faults = 0
    /\ \E i \in Ops("delete_vpc") : calls[i].ok
    /\ RemainingNow["Custom VPCs"] > 0
    /\ \E k \in ReportLines("ActionRequired") : report[k].category = "Custom VPCs"
    /\ \E k \in ReportLines("Deleted") : report[k].category = "NAT Gateways"

\* The listing calls that raised after verify_cleanup was entered.
FailedChecks ==
    {i \in 1..Len(calls) :
        /\ calls[i].kind = "read" /\ ~calls[i].ok
        /\ \E e \in Ops("verify_cleanup") : e < i}

\* C14 (as claimed): a listing call of verify_cleanup that fails is never
\* raised to the caller; it leaves a CheckFailed line in the report and the
\* remaining checks still run.
C14_ListingFailureIsCheckFailed ==
    FailedChecks # {} =>
        /\ pc # "crashed"
        /\ ReportLines("CheckFailed") # {}

\* C15 (as claimed): a category whose listing returns resources that are all
\* in an in-progress deletion state (matching clusters all DELETING; NAT
\* gateways none pending or available and some deleting) is reported
\* Deleting, not ActionRequired.
C15_InProgressIsDeleting ==
    \A k \in 1..Len(report) :
        LET mine == {c \in DOMAIN aws.clusters : is_project_resource(ids, c)}
            active == {n \in DOMAIN aws.nats : aws.nats[n].state \in {"available", "pending"}}
            deleting == {n \in DOMAIN aws.nats : aws.nats[n].state = "deleting"}
        IN  /\ (/\ report[k].category = "EKS Clusters"
                /\ report[k].status # "CheckFailed"
                /\ mine # {}
                /\ \A c \in mine : aws.clusters[c] = "DELETING")
                   => report[k].status = "Deleting"
            /\ (/\ report[k].category = "NAT Gateways"
                /\ active = {}
                /\ deleting # {})
                   => report[k].status = "Deleting"

\* Nothing that the matcher of the run selects exists in the account a.
ProjectSetEmpty(a) ==
    /\ \A c \in DOMAIN a.clusters : ~is_project_resource(ids, c)
    /\ \A g \in a.logGroups : ~is_project_resource(ids, g)
    /\ \A v \in DOMAIN a.vpcs : ~TagNameFilter(ids, a.vpcs[v].name)
    /\ \A e \in DOMAIN a.eips : ~TagNameFilter(ids, a.eips[e].name)
    /\ \A l \in DOMAIN a.clbs :
           ~is_project_resource(ids, l) /\ ~ClassicIsTarget(ids, a.clbs[l].tags)
    /\ \A l \in DOMAIN a.albs :
           ~is_project_resource(ids, a.albs[l].name) /\ ~V2IsTarget(ids, a.albs[l].tags)
    /\ \A o \in DOMAIN a.oidc : ~is_project_resource(ids, a.oidc[o].name) /\ ~Contains(o, "eks")
    /\ \A r \in DOMAIN a.roles : ~is_project_resource(ids, r)
    /\ \A p \in DOMAIN a.policies : ~is_project_resource(ids, p)
    /\ \A x \in DOMAIN a.aliases : ~is_project_resource(ids, x)

\* The delete calls that forced deletion has issued.
ForceDeletes == {i \in Events("mutate") : calls[i].op \in DOMAIN ForceRank}

\* C16 (as claimed): forced deletion run on an account where nothing of the
\* project set remains issues no delete call, and the report that follows
\* has no ActionRequired line.
C16_SecondRunIsQuiet ==
    (Entered("force_delete_infrastructure") /\ ProjectSetEmpty(account)) =>
        /\ ForceDeletes = {}
        /\ ReportLines("ActionRequired") = {}

\* The first half of C16 on its own.
SecondRunDeletesNothing ==
    (Entered("force_delete_infrastructure") /\ ProjectSetEmpty(account)) =>
        ForceDeletes = {}

SecondRunReached ==
    /\ account = ResidualAccount /\ ProjectSetEmpty(account)
    /\ Entered("force_delete_infrastructure") /\ pc = "done"

\* cleanup_state_store has been entered and has returned.
StateStoreReturned ==
    /\ Entered("cleanup_state_store")
    /\ pc \notin {"s3_head", "s3_versions", "s3_bucket_delete", "ddb_delete", "ddb_wait"}

\* C18: once cleanup_state_store has returned, it has asked for the lock
\* table to be deleted, with or without a state bucket and whatever happened
\* to the bucket, and a request that was accepted was followed by the wait
\* for the table's absence; the bucket is deleted only after its object
\* versions were, and those only after the existence check succeeded on a
\* bucket that exists; a missing bucket or table ends the step quietly, and
\* nothing raised in the method leaves it.
C18_StateStoreCleanup ==
    /\ StateStoreReturned =>
          /\ Cardinality(Ops("delete_table")) = 1
          /\ \A i \in Ops("delete_table") :
                /\ \E e \in Ops("cleanup_state_store") : e < i
                /\ calls[i].id = LockTable
                /\ calls[i].ok =>
                      \/ LockTable \notin DOMAIN aws.tables
                      \/ \E w \in Ops("wait_table_not_exists") : w > i
                /\ ~calls[i].ok /\ LockTable \notin DOMAIN account.tables =>
                      LockTable \notin DOMAIN aws.tables
    /\ \A b \in Ops("delete_bucket") :
          \E v \in Ops("delete_object_versions") : v < b /\ calls[v].ok
    /\ \A v \in Ops("delete_object_versions") :
          /\ Ops("head_bucket") = {}
          /\ calls[v].id = args.state_bucket
          /\ calls[v].id \in DOMAIN account.buckets
          /\ \E e \in Ops("cleanup_state_store") : e < v
    /\ Entered("cleanup_state_store") /\ pc = "crashed" => Entered("verify_cleanup")

\* The bucket cleanup failed at the object versions; the table was deleted
\* and seen absent all the same.
C18_Witness ==
    /\ StateStoreReturned
    /\ \E v \in Ops("delete_object_versions") : ~calls[v].ok
    /\ Ops("delete_bucket") = {}
    /\ \E i \in Ops("delete_table") : calls[i].ok
    /\ LockTable \in DOMAIN account.tables /\ LockTable \notin DOMAIN aws.tables

\* ------------------------------------------- helpers evaluated alone
\* The teardown run has not started: main()'s variables at rest.
RunAtRest ==
    /\ pc = "at_rest"
    /\ args = [force |-> FALSE, state_bucket |-> None]
    /\ ids = {}
    /\ account = EmptyAccount
    /\ aws = EmptyAccount
    /\ vpcQ = <<>>
    /\ todo = <<>>
    /\ snap = [items |-> <<>>]
    /\ calls = <<>>
    /\ prompts = <<>>
    /\ report = <<>>
    /\ faults = 0

runVars == <<pc, args, ids, account, aws, vpcQ, todo, snap, calls, prompts, report, faults>>

\* Inputs of the matching helpers: the identifier set, the resource's name
\* (None when it has none) and its tags as (key, value) pairs.
MatcherInputs ==
    [identifiers : {{"proj-a"}, {"omnishop", "proj-a"}},
     name : {None, "proj-a-vpc-1", "proj-b-vpc-1", "Proj-A-vpc-1", "web"},
     tags : { {},
              {<<"Name", "proj-a-role">>},
              {<<"Name", "PROJ-A-role">>},
              {<<"env", "prod">>},
              {<<"kubernetes.io/cluster/proj-a", "owned">>},
              {<<"kubernetes.io/cluster/other", "owned">>},
              {<<"env", "prod">>, <<"team", "proj-a">>} }]

\* self._is_project_resource(name), lines 44-47.
MatchName ==
    /\ \E in \in MatcherInputs :
         /\ in.tags = {}
         /\ evaluated' = [fn |-> "_is_project_resource", identifiers |-> in.identifiers,
                          name |-> in.name, tags |-> {}, ok |-> TRUE,
                          result |-> is_project_resource(in.identifiers, in.name)]
    /\ UNCHANGED <<runVars, orders, served>>

\* The test of lines 95-106 on one classic load balancer; ok is whether
\* describe_tags returned.
MatchClassicLB ==
    /\ \E in \in MatcherInputs, ok \in BOOLEAN :
         /\ in.name # None
         /\ evaluated' = [fn |-> "classic_lb", identifiers |-> in.identifiers,
                          name |-> in.name, tags |-> in.tags, ok |-> ok,
                          result |-> ClassicLBMatches(in.identifiers, in.name, in.tags, ok)]
    /\ UNCHANGED <<runVars, orders, served>>

\* The test of lines 120-130 on one application/network load balancer.
MatchV2LB ==
    /\ \E in \in MatcherInputs, ok \in BOOLEAN :
         /\ in.name # None
         /\ evaluated' = [fn |-> "v2_lb", identifiers |-> in.identifiers,
                          name |-> in.name, tags |-> in.tags, ok |-> ok,
                          result |-> V2LBMatches(in.identifiers, in.name, in.tags, ok)]
    /\ UNCHANGED <<runVars, orders, served>>

\* str.split(','): the list of the pieces.
RECURSIVE SplitCommaList(_)
SplitCommaList(s) ==
    IF \E i \in 1..Len(s) : SubSeq(s, i, i) = ","
    THEN LET i == CHOOSE j \in 1..Len(s) :
                     /\ SubSeq(s, j, j) = ","
                     /\ \A k \in 1..(j - 1) : SubSeq(s, k, k) # ","
         IN  <<SubSeq(s, 1, i - 1)>> \o SplitCommaList(SubSeq(s, i + 1, Len(s)))
    ELSE <<s>>

\* main() lines 575-588: project_identifiers before the duplicates are removed.
IdentifierList(detected, projects) ==
    LET base == <<"omnishop">>
        withDetected == IF detected # None /\ detected \notin Range(base)
                        THEN Append(base, detected) ELSE base
        pieces == SplitCommaList(projects)
        user_projects == [k \in 1..Len(pieces) |-> Strip(pieces[k])]
    IN  IF projects # None THEN withDetected \o user_projects ELSE withDetected

\* Every list holding each element of S exactly once.
RECURSIVE Orderings(_)
Orderings(S) ==
    IF S = {} THEN {<<>>}
    ELSE UNION {{<<x>> \o q : q \in Orderings(S \ {x})} : x \in S}

\* The list left as it was built.
AsBuilt(q) == {q}

\* Line 591: list(set(project_identifiers)); the order of a set is not fixed.
ListOfSet(q) == Orderings(Range(q))

\* Inputs of main()'s identifier set: the default of cluster_name in
\* variables.tf (None when not found) and the --projects argument.
IdentifierInputs ==
    [detected : {None, "omnishop", "omnishop-eks"},
     projects : {None, "omnishop", "proj-a,proj-a", "proj-a, proj-b", " omnishop-eks ",
                 "omnishop-eks,omnishop", "proj-a,", "proj-a,,proj-b", " "}]

\* main() lines 575-591.
BuildIdentifiers ==
    /\ \E in \in IdentifierInputs :
         \E q \in ListOfSet(IdentifierList(in.detected, in.projects)) :
            evaluated' = [fn |-> "project_identifiers", detected |-> in.detected,
                          projects |-> in.projects, result |-> q]
    /\ UNCHANGED <<runVars, orders, served>>

HelperNext == MatchName \/ MatchClassicLB \/ MatchV2LB \/ BuildIdentifiers

\* Nothing evaluated yet.
HelperInit == RunAtRest /\ evaluated = <<>> /\ orders = <<>> /\ served = <<>>

HelperSpec == HelperInit /\ [][HelperNext]_vars

\* pid occurs in s as a run of consecutive characters, case and all.
Substring(pid, s) ==
    \E i \in 1..(Len(s) + 1) : \E j \in (i - 1)..Len(s) : SubSeq(s, i, j) = pid

NameMatches(e) == e.name # "" /\ \E pid \in e.identifiers : Substring(pid, e.name)

\* The tags the helper saw: none when the lookup raised.
TagsSeen(e) == IF e.ok THEN e.tags ELSE {}

TagValueMatches(e) == \E pid \in e.identifiers, t \in TagsSeen(e) : Substring(pid, t[2])

Matched(fns) == evaluated # <<>> /\ evaluated.fn \in fns

\* C17 (as stated): a resource is matched exactly when an identifier is a
\* substring of its name or the value of one of its tags matches an identifier.
C17_MatchedExactlyByNameOrTagValue ==
    Matched({"_is_project_resource", "classic_lb"}) =>
        (evaluated.result <=> (NameMatches(evaluated) \/ TagValueMatches(evaluated)))

\* C17 (amended): the name helper answers true exactly when an identifier is
\* a case-sensitive substring of the name; the classic load-balancer test
\* answers true exactly when that holds, or a tag value contains an
\* identifier, or a tag key is kubernetes.io/cluster/<identifier>.  Without a
\* name and without tags (missing, empty, or the lookup failed) the answer
\* is false; there is always an answer.
C17_MatcherCharacterised ==
    /\ Matched({"_is_project_resource"}) =>
          (evaluated.result <=> NameMatches(evaluated))
    /\ Matched({"classic_lb"}) =>
          (evaluated.result <=>
              \/ NameMatches(evaluated) \/ TagValueMatches(evaluated)
              \/ \E pid \in evaluated.identifiers, t \in TagsSeen(evaluated) :
                    t[1] = "kubernetes.io/cluster/" \o pid)
    /\ Matched({"_is_project_resource", "classic_lb", "v2_lb"}) =>
          /\ evaluated.result \in BOOLEAN
          /\ evaluated.name = "proj-a-vpc-1" => evaluated.result
          /\ evaluated.name \in {"proj-b-vpc-1", "Proj-A-vpc-1"} /\ TagsSeen(evaluated) = {}
                /\ evaluated.identifiers = {"proj-a"} => ~evaluated.result
          /\ evaluated.name = None /\ TagsSeen(evaluated) = {} => ~evaluated.result
          /\ evaluated.fn # "_is_project_resource" /\ evaluated.ok
                /\ <<"Name", "proj-a-role">> \in evaluated.tags => evaluated.result

\* A load balancer whose name matches nothing, matched by its Name tag.
C17_Witness ==
    /\ Matched({"classic_lb"})
    /\ evaluated.identifiers = {"proj-a"}
    /\ evaluated.name = "web"
    /\ evaluated.tags = {<<"Name", "proj-a-role">>} /\ evaluated.ok
    /\ evaluated.result

\* C19: the identifier list is non-empty, contains 'omnishop' and holds no
\* value twice, whatever the detected cluster name and --projects are; its
\* values are the base name, the detected name and the stripped pieces.
C19_IdentifiersWellFormed ==
    Matched({"project_identifiers"}) =>
        LET q == evaluated.result IN
        /\ Len(q) > 0
        /\ \E i \in 1..Len(q) : q[i] = "omnishop"
        /\ \A i, j \in 1..Len(q) : q[i] = q[j] => i = j
        /\ Range(q) = ProjectIdentifiers(evaluated.detected, evaluated.projects)

\* A --projects value that repeats a piece and the detected name.
C19_Witness ==
    /\ Matched({"project_identifiers"})
    /\ evaluated.detected = "omnishop-eks"
    /\ evaluated.projects = "omnishop-eks,omnishop"
    /\ Len(evaluated.result) = 2

\* ----------------------------------------------- orders-service/app.py
\* The sample data, totals as written in the source.
SampleOrders ==
    << [id |-> "ORD-001", customer |-> "Alice Johnson", total |-> "450.00",
        status |-> "Completed", date |-> "2023-10-25"],
       [id |-> "ORD-002", customer |-> "Bob Smith", total |-> "120.50",
        status |-> "Processing", date |-> "2023-10-26"],
       [id |-> "ORD-003", customer |-> "Charlie Brown", total |-> "89.99",
        status |-> "Shipped", date |-> "2023-10-26"],
       [id |-> "ORD-004", customer |-> "Diana Prince", total |-> "1200.00",
        status |-> "Pending", date |-> "2023-10-27"],
       [id |-> "ORD-005", customer |-> "Evan Wright", total |-> "65.00",
        status |-> "Completed", date |-> "2023-10-28"] >>

\* The URL rules of the application: the three views and the exporter's.
Routes == {"/", "/health", "/api/orders", "/metrics"}

\* What products-service answers on /.
ProductsIndexBody ==
    [service |-> "products-service", message |-> "Product Catalog Service Operational"]

\* jsonify({...}) of index().
IndexBody ==
    [service |-> "orders-service", message |-> "Order Management System Operational"]

\* @app.route('/') index()
index ==
    /\ Len(served) < MaxRequests
    /\ served' = Append(served, [method |-> "GET", path |-> "/", status |-> 200,
                                  body |-> IndexBody])
    /\ UNCHANGED <<runVars, evaluated, orders>>

\* @app.route('/health') health()
health ==
    /\ Len(served) < MaxRequests
    /\ served' = Append(served, [method |-> "GET", path |-> "/health", status |-> 200,
                                  body |-> [status |-> "ok"]])
    /\ UNCHANGED <<runVars, evaluated, orders>>

\* @app.route('/api/orders') get_orders()
get_orders ==
    /\ Len(served) < MaxRequests
    /\ served' = Append(served, [method |-> "GET", path |-> "/api/orders", status |-> 200,
                                  body |-> orders])
    /\ UNCHANGED <<runVars, evaluated, orders>>

\* PrometheusMetrics(app): the exporter's /metrics view.
metrics ==
    /\ Len(served) < MaxRequests
    /\ served' = Append(served, [method |-> "GET", path |-> "/metrics", status |-> 200,
                                  body |-> "exposition"])
    /\ UNCHANGED <<runVars, evaluated, orders>>

\* A request no view takes, from a client sending GET or POST: 404 for a path
\* without a rule, 405 for a method the rule does not list (GET only).
Refuse ==
    /\ Len(served) < MaxRequests
    /\ \E method \in {"GET", "POST"}, path \in Routes \cup {"/api/products"} :
         \/ /\ path \notin Routes
            /\ served' = Append(served, [method |-> method, path |-> path,
                                          status |-> 404, body |-> "Not Found"])
         \/ /\ path \in Routes /\ method # "GET"
            /\ served' = Append(served, [method |-> method, path |-> path,
                                          status |-> 405, body |-> "Method Not Allowed"])
    /\ UNCHANGED <<runVars, evaluated, orders>>

ServiceNext == index \/ health \/ get_orders \/ metrics \/ Refuse

\* The module has been imported: `orders` holds the sample data.
ServiceInit == RunAtRest /\ evaluated = <<>> /\ orders = SampleOrders /\ served = <<>>

ServiceSpec == ServiceInit /\ [][ServiceNext]_vars

Answered(method, path) ==
    {i \in 1..Len(served) : served[i].method = method /\ served[i].path = path}

\* C20: whatever was requested before, GET / answers 200 with service
\* 'orders-service', GET /health answers 200 with status 'ok', and every
\* GET /api/orders returns the five sample orders the service started with.
C20_OrdersServiceAnswers ==
    /\ \A i \in Answered("GET", "/") :
          served[i].status = 200 /\ served[i].body.service = "orders-service"
    /\ \A i \in Answered("GET", "/health") :
          served[i].status = 200 /\ served[i].body.status = "ok"
    /\ \A i \in Answered("GET", "/api/orders") :
          served[i].status = 200 /\ served[i].body = SampleOrders
    /\ orders = SampleOrders
    /\ Len(orders) = 5

\* The three views answered after a request that was refused.
C20_Witness ==
    /\ Len(served) = MaxRequests
    /\ served[1].method = "POST" /\ served[1].path = "/api/orders" /\ served[1].status = 405
    /\ served[2].path = "/api/orders" /\ served[2].status = 200
    /\ Len(served[2].body) = 5
    /\ served[3].path = "/" /\ served[3].status = 200

\* ------------------------------------------------------ claims C21-C29
\* The calls that delete what an instance can hold on to.
BoundaryDeletes ==
    {i \in Events("mutate") :
        calls[i].op \in {"delete_nat_gateway", "delete_subnet", "delete_security_group"}}

\* C21: no NAT-gateway, subnet or security-group delete call is issued in a
\* boundary while an instance of that boundary is not terminated.  (The
\* state of a boundary's instances no longer changes once its instance
\* phase is over, so the state now is the state at the call.)
C21_NoDeleteWhileInstancesLive ==
    \A i \in BoundaryDeletes :
        \A x \in InVpc(aws.instances, calls[i].vpc) : aws.instances[x].state = "terminated"

\* force_delete_infrastructure has left its cluster phase (lines 221-238).
PastClusterPhase ==
    /\ Entered("force_delete_infrastructure")
    /\ pc \notin {"eks_list", "eks_delete", "eks_wait"}

MatchingClusters == {c \in DOMAIN aws.clusters : \E pid \in ids : Substring(pid, c)}

\* The calls of the cluster phase that raised: the listing, a delete, a wait.
ClusterPhaseFailures ==
    {i \in 1..Len(calls) :
        /\ \E e \in Ops("force_delete_infrastructure") : e < i
        /\ \A e \in Ops("verify_cleanup") : i < e
        /\ \/ calls[i].kind = "read" /\ calls[i].op \in {"list_clusters", "wait_cluster_deleted"}
           \/ calls[i].op = "delete_cluster" /\ ~calls[i].ok}

\* C22 (as stated): forced deletion is past its cluster phase only when no
\* cluster matching the identifier set exists any more.
C22_NoMatchingClusterPastPhase ==
    PastClusterPhase => MatchingClusters = {}

\* C22 (amended): forced deletion is past its cluster phase with a matching
\* cluster still there only when the listing, the delete call or the wait
\* for that cluster raised; a delete call that returned is followed by the
\* wait, and the phases after it start only once the wait has ended.
C22_ClusterGoneOrFailureLogged ==
    /\ PastClusterPhase /\ MatchingClusters # {} => ClusterPhaseFailures # {}
    /\ \A i \in Ops("delete_cluster") :
          calls[i].ok /\ calls[i].id \in DOMAIN aws.clusters /\ pc # "eks_wait" =>
              \E w \in Ops("wait_cluster_deleted") : w > i
    /\ \A i \in Ops("delete_log_group") \cup Ops("delete_subnet") : PastClusterPhase

\* The cluster was deleted and seen gone before a log group was deleted.
C22_Witness ==
    /\ faults = 0
    /\ "omnishop-eks" \in DOMAIN account.clusters
    /\ MatchingClusters = {}
    /\ \E i \in Ops("delete_cluster") : \E j \in Ops("delete_log_group") : i < j /\ calls[i].ok

\* The load balancers cleanup_load_balancers asked to delete that are still there.
UndrainedLoadBalancers ==
    {calls[j].id : j \in Ops("delete_load_balancer") \cup Ops("delete_load_balancer_v2")}
        \cap (DOMAIN aws.clbs \cup DOMAIN aws.albs)

\* C23: no cluster, subnet or security-group delete call is issued while a
\* load balancer selected for deletion still exists.  (Load balancers change
\* only inside cleanup_load_balancers, which has returned by then.)
C23_LoadBalancersDrained ==
    (\E i \in Events("mutate") :
        calls[i].op \in {"delete_cluster", "delete_subnet", "delete_security_group"})
    => UndrainedLoadBalancers = {}

\* The roles of the starting account that the role loop takes up (line 397).
SelectedRoles ==
    {r \in DOMAIN account.roles :
        (\E pid \in ids : Substring(pid, r)) \/ Substring("eks-cluster-role", r)}

\* The calls on role r that have to come before its delete_role.
RoleSteps(r, op) == {i \in Ops(op) : calls[i].id = r}

RoleListingsRaised ==
    {i \in Events("read") :
        calls[i].op \in {"list_roles", "list_attached_role_policies", "list_role_policies",
                         "list_instance_profiles_for_role"}
        /\ \A e \in Ops("verify_cleanup") : i < e}

\* C24: delete_role is issued for a role only after each of its managed
\* policies was detached, each inline policy deleted and the role removed
\* from each instance profile, all of these calls having returned; after a
\* failing step the role gets no delete_role and the next role is taken up.
C24_RoleDeletedLast ==
    /\ \A j \in Ops("delete_role") :
          LET r == calls[j].id IN
          /\ r \in SelectedRoles
          /\ \A op \in {"detach_role_policy", "delete_role_policy",
                         "remove_role_from_instance_profile"} :
                \A i \in RoleSteps(r, op) : i < j /\ calls[i].ok
          /\ Cardinality(RoleSteps(r, "detach_role_policy"))
                = Cardinality(account.roles[r].attached)
          /\ Cardinality(RoleSteps(r, "delete_role_policy"))
                = Cardinality(account.roles[r].inline)
          /\ Cardinality(RoleSteps(r, "remove_role_from_instance_profile"))
                = Cardinality(account.roles[r].profiles)
    /\ Entered("force_delete_infrastructure") /\ Entered("cleanup_state_store") =>
          \A r \in SelectedRoles :
             \/ RoleSteps(r, "delete_role") # {}
             \/ \E i \in 1..Len(calls) : calls[i].id = r /\ ~calls[i].ok
             \/ RoleListingsRaised # {}

\* A detach failed for the first role: it was left alone, the next one deleted.
C24_Witness ==
    /\ \E i \in RoleSteps("omnishop-eks-node-role", "detach_role_policy") : ~calls[i].ok
    /\ RoleSteps("omnishop-eks-node-role", "delete_role") = {}
    /\ \E j \in RoleSteps("acme-eks-cluster-role", "delete_role") : calls[j].ok

\* The calls that delete, detach or modify a role or a customer-managed policy.
RoleAndPolicyCalls ==
    {i \in Events("mutate") :
        calls[i].op \in {"detach_role_policy", "delete_role_policy",
                         "remove_role_from_instance_profile", "delete_role",
                         "delete_policy_version", "delete_policy"}}

\* C25: every call that deletes, detaches or modifies a role or a policy is
\* made on one whose name contains a project identifier.
C25_OnlyProjectRolesAndPolicies ==
    \A i \in RoleAndPolicyCalls : \E pid \in ids : Substring(pid, calls[i].id)

\* The aliases of the starting account that cleanup_kms takes up (line 59).
MatchingAliases == {a \in DOMAIN account.aliases : \E pid \in ids : Substring(pid, a)}

\* C26: key deletion is scheduled only for the target key of a matching
\* alias whose key was not already pending deletion; a key changes only by
\* becoming pending deletion with a window of 7 days, and none disappears;
\* unless the listing itself raised, every matching alias gets its
\* delete_alias call, whatever failed for the aliases before it.
C26_KeyDeletionScheduled ==
    /\ \A i \in Ops("schedule_key_deletion") :
          /\ \E a \in MatchingAliases : account.aliases[a] = calls[i].id
          /\ account.keys[calls[i].id] # "PendingDeletion"
    /\ DOMAIN aws.keys = DOMAIN account.keys
    /\ \A k \in DOMAIN aws.keys :
          aws.keys[k] # account.keys[k] =>
              /\ aws.keys[k] = "PendingDeletion"
              /\ aws.windows[k] = 7
              /\ \E i \in Ops("schedule_key_deletion") : calls[i].id = k /\ calls[i].ok
    /\ \A k \in DOMAIN account.windows :
          k \in DOMAIN aws.windows /\ aws.windows[k] = account.windows[k]
    /\ Entered("force_delete_infrastructure") /\ Entered("cleanup_state_store") =>
          \/ \E i \in Events("read") : calls[i].op = "list_aliases"
          \/ \A a \in MatchingAliases : \E i \in Ops("delete_alias") : calls[i].id = a

\* Scheduling failed for the first alias's key; the second alias, whose key
\* was pending deletion already, was still deleted and its key left alone.
C26_Witness ==
    /\ \E i \in Ops("schedule_key_deletion") : calls[i].id = "key-1" /\ ~calls[i].ok
    /\ \E i \in Ops("delete_alias") : calls[i].id = "alias/omnishop-logs" /\ calls[i].ok
    /\ aws.keys["key-1"] = "Enabled"
    /\ aws.windows["key-3"] = 30

MainRouteTables == {r \in DOMAIN account.rts : account.rts[r].main}

DefaultSecurityGroups == {g \in DOMAIN account.sgs : account.sgs[g].name = "default"}

\* C27 (as stated): every main route table and every security group named
\* 'default' is left as it was by the run.
C27_MainAndDefaultUnchanged ==
    /\ \A r \in MainRouteTables : r \in DOMAIN aws.rts /\ aws.rts[r] = account.rts[r]
    /\ \A g \in DefaultSecurityGroups : g \in DOMAIN aws.sgs /\ aws.sgs[g] = account.sgs[g]

\* C27 (amended): no delete call is issued for a main route table, and no
\* revocation or delete call for a security group named 'default'; each of
\* them is as it was for as long as it exists, and it stops existing only
\* together with its VPC, after a delete_vpc call that returned.
C27_MainAndDefaultNeverCalled ==
    /\ \A i \in Ops("delete_route_table") : calls[i].id \notin MainRouteTables
    /\ \A i \in Ops("delete_security_group") \cup Ops("revoke_security_group_ingress")
                 \cup Ops("revoke_security_group_egress") :
          calls[i].id \notin DefaultSecurityGroups
    /\ \A r \in MainRouteTables :
          IF r \in DOMAIN aws.rts THEN aws.rts[r] = account.rts[r]
          ELSE \E i \in Ops("delete_vpc") : calls[i].id = account.rts[r].vpc /\ calls[i].ok
    /\ \A g \in DefaultSecurityGroups :
          IF g \in DOMAIN aws.sgs THEN aws.sgs[g] = account.sgs[g]
          ELSE \E i \in Ops("delete_vpc") : calls[i].id = account.sgs[g].vpc /\ calls[i].ok

\* The other route table and groups of vpc-1 were deleted, a failing
\* delete_vpc left the VPC: its main table and default group are as before.
C27_Witness ==
    /\ \E i \in Ops("delete_route_table") : calls[i].id = "rtb-1" /\ calls[i].ok
    /\ \E i \in Ops("delete_security_group") : calls[i].id = "sg-b" /\ calls[i].ok
    /\ \E i \in Ops("delete_vpc") : calls[i].id = "vpc-1" /\ ~calls[i].ok
    /\ aws.rts["rtb-main-1"] = account.rts["rtb-main-1"]
    /\ aws.sgs["sg-default-1"] = account.sgs["sg-default-1"]

\* C28: a forced run in which no call raises reaches the end of
\* verification; the NAT poll loop is left only by a poll that finds no
\* gateway pending, available or deleting, and such a poll always leaves it.
C28_ForcedRunTerminates ==
    /\ Entered("force_delete_infrastructure") ~> (pc = "done" \/ faults > 0)
    /\ [][pc = "nat_poll" =>
            /\ pc' \notin {"nat_poll", "crashed"} =>
                  \A n \in InVpc(aws.nats, CurVpc) :
                      aws.nats[n].state \notin {"pending", "available", "deleting"}
            /\ pc' = "nat_poll" /\ aws' = aws =>
                  \E n \in InVpc(aws.nats, CurVpc) :
                      aws.nats[n].state \in {"pending", "available", "deleting"}]_vars

\* A forced run that waited in the poll loop and reached the end.
C28_Witness ==
    /\ pc = "done" /\ faults = 0
    /\ Entered("force_delete_infrastructure")
    /\ \E i, j \in Ops("poll_nat_gateways") :
          i < j /\ calls[i].id = "some" /\ calls[j].id = "none"

\* Names of resources that hold none of the project tokens used here.
ForeignNames == {"web", "db-backup"}

\* C29: whatever --projects is (a trailing comma, doubled commas, blanks),
\* the identifier list does not hold the empty string, and a name is matched
\* by _is_project_resource under these identifiers only when it contains one
\* of the project tokens.
C29_NoEmptyIdentifier ==
    Matched({"project_identifiers"}) =>
        LET q == evaluated.result IN
        /\ \A i \in 1..Len(q) : q[i] # ""
        /\ \A name \in ForeignNames :
              is_project_resource(Range(q), name) =>
                  \E pid \in Range(q) : pid # "" /\ Substring(pid, name)

Next ==
    \/ DiscoverBucket
    \/ Confirm
    \/ EnterLoadBalancers
    \/ ListClassicLBs \/ TagsClassicLB \/ DeleteClassicLB
    \/ ListV2LBs \/ TagsV2LB \/ DeleteV2LB
    \/ EnterTerraformDestroy \/ TerraformInit \/ TerraformDestroy
    \/ ForcePrompt
    \/ EnterForceDelete
    \/ ListClusters \/ DeleteCluster \/ WaitClusterDeleted
    \/ ListLogGroups \/ DeleteLogGroup
    \/ ListVpcs
    \/ ListInstances \/ TerminateInstances \/ WaitInstancesTerminated
    \/ ListNatGateways \/ DeleteNatGateway \/ PollNatGateways \/ NatGatewayProgress
    \/ ListAddresses \/ ReleaseAddress
    \/ ListInternetGateways \/ DetachInternetGateway \/ DeleteInternetGateway
    \/ ListSubnets \/ DeleteSubnet
    \/ ListRouteTables \/ DeleteRouteTable
    \/ ListSecurityGroups \/ RevokeRules \/ DeleteSecurityGroup
    \/ DeleteVpc
    \/ ListOidcProviders \/ TagsOidcProvider \/ DeleteOidcProvider
    \/ ListRoles \/ ListAttachedRolePolicies \/ DetachRolePolicy
    \/ ListRolePolicies \/ DeleteRolePolicy
    \/ ListInstanceProfilesForRole \/ RemoveRoleFromInstanceProfile
    \/ DeleteInstanceProfile \/ DeleteRole
    \/ ListPolicies \/ ListPolicyVersions \/ DeletePolicyVersion \/ DeletePolicy
    \/ ListAliases \/ DeleteAlias \/ DescribeKey \/ ScheduleKeyDeletion
    \/ EnterStateStore \/ HeadBucket \/ DeleteObjectVersions \/ DeleteBucket
    \/ DeleteTable \/ WaitTableNotExists
    \/ EnterVerify
    \/ VerifyClusters \/ VerifyClassicLBs \/ VerifyV2LBs
    \/ VerifyNatActive \/ VerifyNatDeleting \/ VerifyVpcs
    \/ VerifySubnets \/ VerifySecurityGroups \/ VerifyNetworkAcls
    \/ VerifyRoles \/ VerifyPolicies

Spec == Init /\ [][Next]_vars

\* The run under the assumptions of its termination: a call that can return
\* does return, and the provider finishes what it has begun on a NAT gateway.
FairSpec ==
    /\ Spec
    /\ WF_vars(Next /\ faults' = faults)
    /\ WF_vars(NatGatewayProgress)

====
